---- MODULE Spec2Model ----
(***************************************************************************)
(* A model of the PangPang paper pipeline (src/paper_pipeline.py,          *)
(* src/get_pdf.py): the retriever's retry loop, the image loop and alias   *)
(* map of process_paper, the two-pass reference rewrite, and main's loop   *)
(* over the selected papers.                                               *)
(*                                                                         *)
(* Text is a sequence of symbols.  A symbol stands for a fixed piece of a  *)
(* real string: "." and "/" are themselves, "D" is "data", "I" is          *)
(* "images_", "7" and "9" are directory suffixes (a paper id and the       *)
(* date, "7_2024-01-01"),                                                  *)
(* "a" and "0" are pieces of image ids ("a0" has "a" as a prefix), "h" is  *)
(* "https:", "s" is a host name, "x" and "y" are remote file names and     *)
(* "w" is a word of prose.  In a page of a converted document "![", "]("   *)
(* and ")" are the pieces of an image reference and "![F](" is             *)
(* "![Figure from paper](".  No symbol other than "/" holds a slash.       *)
(***************************************************************************)
EXTENDS Integers, Sequences, FiniteSets, TLC

VARIABLES
    pc,                 \* the position in process_paper
    \* ---- configuration and environment, fixed during a run
    output_dir,         \* config["output_dir"]
    converter,          \* config["pdf_to_markdown"]["converter"]
    env,                \* os.environ: the proxy variables
    smms_key,           \* whether SMMS_API_KEY is set
    \* ---- the reference rewrite (process_paper, lines 356-414)
    image_url_map,      \* insertion-ordered dict: sequence of [path, url]
    summary,            \* the summarizer's output
    processed_summary,  \* the text being rewritten
    rewritten_once,     \* the result of the first complete rewrite
    \* ---- download_pdf (get_pdf.py, lines 115-193), per call
    dl_pc,              \* "idle" | "resolve" | "attempt" | "returned" | "raised"
    max_retries,        \* the parameter max_retries
    attempt,            \* the loop variable
    timeout,            \* the local timeout, a fraction <<num, den>>
    pdf_url,            \* result["pdf_url"], "" for None
    arxiv_url,          \* result["arxiv_url"], "" for None
    download_result,    \* the returned [filename, arxiv_url], "" for None
    requests_log,       \* the HTTP requests this call has made, in order
    pdf_written,        \* what this call left under the final filename:
                        \* "none" | "partial" | "complete"
    \* ---- the image loop of process_paper (lines 234-328)
    n_pages,            \* len(ocr_response["pages"])
    images_left,        \* the descriptors the rest of the response holds at most
    page_no,            \* the page the loop is at
    n_images,           \* len(page["images"]) of that page
    img_no,             \* the descriptor the inner loop is at
    content,            \* the text accumulated so far
    page_content,       \* the text of the page being processed
    image_refs,         \* the set image_refs
    seen,               \* the descriptors iterated so far: [page, id]
    materialized,       \* the images written to the image directory, in
                        \* order: [id, whole] (whole: written in full)
    uploads,            \* the ids handed to upload_image, in order
    hosted,             \* the ids whose upload returned a URL
    missing,            \* the ids whose source file was not found, in order
    dropped,            \* the descriptors of the pages skipped for having no text
    \* ---- process_paper and main (lines 159-430, 486-491)
    main_pc,            \* "processing" | "done" | "aborted"
    top_papers,         \* the selected papers: [id, url]
    idx,                \* the paper main's comprehension is at
    summary_files,      \* main's list summary_files
    files,              \* the summary files on disk: [name, text]
    reached,            \* per finished call: [paper, last, failure, ops]
    result,             \* the value process_paper returned, "" for None
    failure,            \* why this paper's processing ended early, or ""
    stages,             \* the stages this paper reached, in order
    calls,              \* the operations performed for this paper, in order
    smms_uploader,      \* whether the uploader was constructed
    result_json,        \* the paper whose conversion wrote result.json (0: no
                        \* such file, 1: a paper of an earlier run)
    loaded,             \* the paper whose result.json this call read (0: none)
    \* ---- convert_to_markdown of get_markdown_doc2x.py (lines 41-64)
    poll_pc,            \* "idle" | "preupload" | "put" | "poll" | "returned" |
                        \* "raised"
    polls,              \* the status requests made so far
    poll_file,          \* result.json: "old" (as the call found it) |
                        \* "empty" (opened for writing) | "result"
    \* ---- main's Steps 1 and 2 over the catalog (lines 457-485)
    run_pc,             \* "idle" | "fetch" | "select" | "process" | "done"
    run_no,             \* the runs of main begun so far
    catalog,            \* per paper: "absent" | "unread" | "read"
                        \* (thoroughly_read)
    paper_count,        \* what fetch_latest_papers returned
    new_count,          \* the papers this run's fetch added
    limit,              \* the limit passed to rank_and_select_papers
    selected,           \* the ids of the papers it returned
    proc_idx,           \* how many of them process_paper was called on
    offered,            \* what get_random_papers gave the ranking in this run
    failed,             \* the papers whose processing failed: [id, run]
    ranked,             \* ranked_paper_ids of a call of rank_and_select_papers
                        \* taken alone: what the ranking answered
    \* ---- the papers table (papers_with_code.py lines 14-30)
    papers              \* its rows, in the order of their ids: [title, stars,
                        \* thoroughly_read]

cfgVars == <<output_dir, converter, env, smms_key>>

rwVars == <<image_url_map, summary, processed_summary, rewritten_once>>

dlVars == <<dl_pc, max_retries, attempt, timeout, pdf_url, arxiv_url,
            download_result, requests_log, pdf_written>>

imVars == <<n_pages, images_left, page_no, n_images, img_no, content,
            page_content, image_refs, seen, materialized, uploads, hosted,
            missing, dropped>>

ppVars == <<main_pc, top_papers, idx, summary_files, files, reached, result,
            failure, stages, calls, smms_uploader, result_json, loaded>>

\* ppVars without the two logs of the current paper.
ppRest == <<main_pc, top_papers, idx, summary_files, files, reached, result,
            failure, smms_uploader, result_json, loaded>>

pollVars == <<poll_pc, polls, poll_file>>

mainVars == <<run_pc, run_no, catalog, paper_count, new_count, limit, selected,
              proc_idx, offered, failed, ranked, papers>>

\* What process_paper, seen from its caller, leaves alone.
outerVars == <<pollVars, mainVars>>

vars == <<pc, cfgVars, rwVars, dlVars, imVars, ppVars, outerVars>>

-----------------------------------------------------------------------------
\* Bounds of the model.

\* Most reference-like or prose items a generated summary is made of.
MaxItems == 2

\* The largest max_retries a caller of download_pdf passes.
MaxRetriesArg == 3

\* Most papers selected in one run.
MaxPapers == 2

\* Most pages of a conversion response the image loop is run on.
MaxPages == 3

\* Most image descriptors of a conversion response the image loop is run on.
MaxDescriptors == 2

-----------------------------------------------------------------------------
\* Strings.

\* s[p..] starts with k.
IsAt(s, p, k) ==
    /\ p + Len(k) - 1 <= Len(s)
    /\ \A i \in 1..Len(k) : s[p + i - 1] = k[i]

\* Python's `k in s` for a non-empty k.
Contains(s, k) == \E p \in 1..Len(s) : IsAt(s, p, k)

StartsWith(s, k) == IsAt(s, 1, k)

RECURSIVE ReplaceFrom(_, _, _, _)
ReplaceFrom(s, p, old, new) ==
    IF p > Len(s) THEN <<>>
    ELSE IF IsAt(s, p, old)
         THEN new \o ReplaceFrom(s, p + Len(old), old, new)
         ELSE <<s[p]>> \o ReplaceFrom(s, p + 1, old, new)

\* A replace that stops after the first occurrence.
ReplaceFirstOnly(s, old, new) ==
    IF \E p \in 1..Len(s) : IsAt(s, p, old)
    THEN LET p == CHOOSE q \in 1..Len(s) :
                      IsAt(s, q, old) /\ \A r \in 1..(q - 1) : ~IsAt(s, r, old)
         IN  SubSeq(s, 1, p - 1) \o new \o SubSeq(s, p + Len(old), Len(s))
    ELSE s

\* Python's s.replace(old, new) for a non-empty old: every occurrence, left
\* to right, without overlap.
Replace(s, old, new) == ReplaceFrom(s, 1, old, new)

RECURSIVE LStrip(_, _)
\* Python's s.lstrip(chars).
LStrip(s, chars) ==
    IF s # <<>> /\ s[1] \in chars THEN LStrip(Tail(s), chars) ELSE s

\* os.path.join of two components.
Join2(a, b) ==
    IF b # <<>> /\ b[1] = "/" THEN b
    ELSE IF a = <<>> \/ a[Len(a)] = "/" THEN a \o b
    ELSE a \o <<"/">> \o b

\* os.path.join(output_dir, image_dir, img_id)
PathJoin(dir, image_dir, img_id) == Join2(Join2(dir, image_dir), img_id)

RECURSIVE Basename(_)
\* os.path.basename: what follows the last slash.
Basename(path) ==
    IF \E i \in 1..Len(path) : path[i] = "/"
    THEN Basename(Tail(path))
    ELSE path

-----------------------------------------------------------------------------
\* The retriever (get_pdf.py).

\* The default of download_pdf's parameter max_retries.
DefaultMaxRetries == 3

\* The default of download_pdf's parameter timeout, in seconds.
InitialTimeout == 30

\* The default of get_pdf_url's parameter timeout, in seconds.
PageTimeout == 10

\* requests' proxies=None.
NoProxies == [http |-> "", https |-> ""]

\* An environment with no proxy variable set ("" is unset or empty).
NoEnv ==
    [HTTP_PROXY |-> "", HTTPS_PROXY |-> "", http_proxy |-> "",
     https_proxy |-> "", NO_PROXY |-> "", no_proxy |-> ""]

\* get_proxies() without the test of lines 27-29.
get_proxies_no_opt_out(e) ==
    [http |-> IF e.HTTP_PROXY # "" THEN e.HTTP_PROXY ELSE e.http_proxy,
     https |-> IF e.HTTPS_PROXY # "" THEN e.HTTPS_PROXY ELSE e.https_proxy]

\* get_proxies(): the upper-case variables, else the lower-case ones; None
\* when NO_PROXY or no_proxy is "1" or when nothing is set.
get_proxies(e) ==
    LET http == IF e.HTTP_PROXY # "" THEN e.HTTP_PROXY ELSE e.http_proxy
        https == IF e.HTTPS_PROXY # "" THEN e.HTTPS_PROXY ELSE e.https_proxy
    IN  IF e.NO_PROXY = "1" \/ e.no_proxy = "1" THEN NoProxies
        ELSE [http |-> http, https |-> https]

\* timeout *= 1.5 on a fraction in lowest terms.
TimesOneAndHalf(t) ==
    IF t[1] % 2 = 0 THEN <<(3 * t[1]) \div 2, t[2]>> ELSE <<3 * t[1], 2 * t[2]>>

\* The proxies of a download attempt (line 128).
AttemptProxiesAlways(n, e) == get_proxies(e)

AttemptProxies(n, e) == IF n > 1 THEN NoProxies ELSE get_proxies(e)

\* The timeout after an attempt that timed out (lines 179-183).
TimeoutAfterTimeout(n, max, t) == IF n < max THEN TimesOneAndHalf(t) ELSE t

\* The timeout after an attempt that failed otherwise (lines 185-190).
TimeoutAfterErrorRaised(n, max, t) == IF n < max THEN TimesOneAndHalf(t) ELSE t

TimeoutAfterError(n, max, t) == t

\* Lines 143-147: the last segment of the URL, or the fallback name.
FilenameOf(url) == IF url = "site/x.pdf" THEN "x.pdf" ELSE "paper.pdf"

\* The direct links a page can hold: one ending in ".pdf", one that does not.
PdfUrls == {"site/x.pdf", "site/download"}

\* How one streamed GET of the PDF can end: done, a timeout, a request
\* error before or after the first chunk was written, or an error that is
\* no RequestException (the file cannot be opened or written).
Outcomes == {"ok", "timeout", "error", "error_midstream", "oserror"}

\* The environments tried with the retriever.
Envs ==
    {NoEnv,
     [NoEnv EXCEPT !.HTTP_PROXY = "P", !.HTTPS_PROXY = "P"],
     [NoEnv EXCEPT !.https_proxy = "p"],
     [NoEnv EXCEPT !.HTTP_PROXY = "P", !.HTTPS_PROXY = "P", !.NO_PROXY = "1"]}

\* The locals of download_pdf at its entry with max_retries = max, lines
\* 115-116 (idle: no call is in progress).
DownloadLocals(at, max) ==
    /\ dl_pc = at
    /\ max_retries = max
    /\ attempt = 0
    /\ timeout = <<InitialTimeout, 1>>
    /\ pdf_url = ""
    /\ arxiv_url = ""
    /\ download_result = [filename |-> "", arxiv_url |-> ""]
    /\ requests_log = <<>>
    /\ pdf_written = "none"

DownloadIdle == DownloadLocals("idle", DefaultMaxRetries)

\* The request of get_pdf_url sent without the proxies.
PageRequestDirect(o, a) ==
    [kind |-> "page", proxies |-> NoProxies,
     timeout |-> <<PageTimeout, 1>>, outcome |-> o, arxiv |-> a]

\* The request of get_pdf_url (line 90), how it ended and the arXiv link
\* the fetched page held.
PageRequest(o, a) ==
    [kind |-> "page", proxies |-> get_proxies(env),
     timeout |-> <<PageTimeout, 1>>, outcome |-> o, arxiv |-> a]

\* The arXiv links a fetched page can hold ("": none).
ArxivLinks == {"", "arxiv.org/abs/1"}

\* get_pdf_url fails (lines 107-112), or the page holds no PDF link: lines
\* 117-122 return (None, arxiv_url).
ResolveNoLink ==
    /\ dl_pc = "resolve"
    /\ \E o \in {"timeout", "error", "no_link"} :
       \E a \in IF o = "no_link" THEN ArxivLinks ELSE {""} :
          /\ requests_log' = Append(requests_log, PageRequest(o, a))
          /\ arxiv_url' = a
          /\ download_result' = [filename |-> "", arxiv_url |-> a]
    /\ dl_pc' = "returned"
    /\ UNCHANGED <<max_retries, attempt, timeout, pdf_url, pdf_written>>

\* get_pdf_url finds a PDF link: lines 117-125, the loop is entered.
ResolveLink ==
    /\ dl_pc = "resolve"
    /\ pdf_url' \in PdfUrls
    /\ arxiv_url' \in ArxivLinks
    /\ requests_log' = Append(requests_log, PageRequest("ok", arxiv_url'))
    /\ attempt' = 1
    /\ dl_pc' = "attempt"
    /\ UNCHANGED <<max_retries, timeout, download_result, pdf_written>>

\* The request of line 137 and how the attempt ended.
DownloadRequest(o) ==
    [kind |-> "pdf", proxies |-> AttemptProxies(attempt, env),
     timeout |-> timeout, outcome |-> o, arxiv |-> ""]

\* for attempt in range(1, max_retries + 1), with one iteration too many.
LoopRunsOneMore(n, max) == n <= max + 1

\* for attempt in range(1, max_retries + 1)
LoopRuns(n, max) == n <= max

\* One iteration of the loop of lines 125-190.
DownloadAttempt ==
    /\ dl_pc = "attempt"
    /\ LoopRuns(attempt, max_retries)
    /\ \E o \in Outcomes :
          /\ requests_log' = Append(requests_log, DownloadRequest(o))
          /\ CASE o = "ok" ->
                    /\ pdf_written' = "complete"
                    /\ download_result' = [filename |-> FilenameOf(pdf_url),
                                           arxiv_url |-> arxiv_url]
                    /\ dl_pc' = "returned"
                    /\ UNCHANGED <<attempt, timeout>>
               [] o = "timeout" ->
                    /\ timeout' = TimeoutAfterTimeout(attempt, max_retries, timeout)
                    /\ attempt' = attempt + 1
                    /\ UNCHANGED <<dl_pc, download_result, pdf_written>>
               [] o = "error" ->
                    /\ timeout' = TimeoutAfterError(attempt, max_retries, timeout)
                    /\ attempt' = attempt + 1
                    /\ UNCHANGED <<dl_pc, download_result, pdf_written>>
               [] o = "error_midstream" ->
                    /\ pdf_written' = "partial"
                    /\ timeout' = TimeoutAfterError(attempt, max_retries, timeout)
                    /\ attempt' = attempt + 1
                    /\ UNCHANGED <<dl_pc, download_result>>
               [] o = "oserror" ->
                    /\ dl_pc' = "raised"
                    /\ UNCHANGED <<attempt, timeout, download_result, pdf_written>>
    /\ UNCHANGED <<max_retries, pdf_url, arxiv_url>>

\* Lines 192-193: every attempt failed.
DownloadExhausted ==
    /\ dl_pc = "attempt"
    /\ ~LoopRuns(attempt, max_retries)
    /\ download_result' = [filename |-> "", arxiv_url |-> arxiv_url]
    /\ dl_pc' = "returned"
    /\ UNCHANGED <<max_retries, attempt, timeout, pdf_url, arxiv_url,
                   requests_log, pdf_written>>

\* The papers a catalog can hold.
CatalogPapers == {1, 2, 3}

\* No conversion is polling and main is past its Steps 1 and 2.
OuterIdle ==
    /\ poll_pc = "idle"
    /\ polls = 0
    /\ poll_file = "old"
    /\ run_pc = "idle"
    /\ run_no = 1
    /\ catalog = [p \in CatalogPapers |-> "absent"]
    /\ paper_count = 0
    /\ new_count = 0
    /\ limit = 0
    /\ selected = <<>>
    /\ proc_idx = 0
    /\ offered = {}
    /\ failed = {}
    /\ ranked = <<>>
    /\ papers = <<>>

\* The default configuration (load_config, lines 36-41) and an environment
\* with the image host's token.
DefaultConfig ==
    /\ output_dir = <<".", "/", "D">>
    /\ converter = "mistral_ocr"
    /\ smms_key = TRUE

\* The locals of the image loop before it runs.
ImagesIdle ==
    /\ n_pages = 0
    /\ images_left = 0
    /\ page_no = 0
    /\ n_images = 0
    /\ img_no = 0
    /\ content = <<>>
    /\ page_content = <<>>
    /\ image_refs = {}
    /\ seen = <<>>
    /\ materialized = <<>>
    /\ uploads = <<>>
    /\ hosted = {}
    /\ missing = <<>>
    /\ dropped = 0

\* main is processing the only selected paper, paper 7, which has reached
\* the stages st by the operations ops.
OnePaper(st, ops) ==
    /\ main_pc = "processing"
    /\ top_papers = <<[id |-> 7, url |-> "u"]>>
    /\ idx = 1
    /\ summary_files = <<>>
    /\ files = <<>>
    /\ reached = <<>>
    /\ result = ""
    /\ failure = ""
    /\ stages = st
    /\ calls = ops
    /\ smms_uploader = smms_key
    /\ result_json = IF \E i \in 1..Len(ops) : ops[i] = "convert" THEN 7 ELSE 0
    /\ loaded = IF \E i \in 1..Len(st) : st[i] = "Normalized" THEN 7 ELSE 0

RewriteIdle ==
    /\ image_url_map = <<>>
    /\ summary = <<>>
    /\ processed_summary = <<>>
    /\ rewritten_once = <<>>

InitDownload ==
    /\ pc = "download"
    /\ DefaultConfig
    /\ env \in Envs
    /\ OuterIdle
    /\ RewriteIdle
    /\ ImagesIdle
    /\ OnePaper(<<"Selected">>, <<"download_pdf">>)
    /\ \E max \in 1..MaxRetriesArg : DownloadLocals("resolve", max)

NextDownload ==
    \/ (ResolveNoLink /\ UNCHANGED <<pc, cfgVars, outerVars, rwVars, imVars, ppVars>>)
    \/ (ResolveLink /\ UNCHANGED <<pc, cfgVars, outerVars, rwVars, imVars, ppVars>>)
    \/ (DownloadAttempt /\ UNCHANGED <<pc, cfgVars, outerVars, rwVars, imVars, ppVars>>)
    \/ (DownloadExhausted /\ UNCHANGED <<pc, cfgVars, outerVars, rwVars, imVars, ppVars>>)

SpecDownload == InitDownload /\ [][NextDownload]_vars

\* Every setting of the six variables get_proxies reads: each proxy
\* variable unset or set, the opt-out variables unset, "1" or a host list.
AllEnvs ==
    [HTTP_PROXY : {"", "P"}, HTTPS_PROXY : {"", "PS"},
     http_proxy : {"", "p"}, https_proxy : {"", "ps"},
     NO_PROXY : {"", "1", "localhost"}, no_proxy : {"", "1", "localhost"}]

\* download_pdf with its default arguments under every environment.
InitProxies ==
    /\ pc = "download"
    /\ DefaultConfig
    /\ env \in AllEnvs
    /\ OuterIdle
    /\ RewriteIdle
    /\ ImagesIdle
    /\ OnePaper(<<"Selected">>, <<"download_pdf">>)
    /\ DownloadLocals("resolve", DefaultMaxRetries)

SpecProxies == InitProxies /\ [][NextDownload]_vars

-----------------------------------------------------------------------------
\* The inputs of the rewrite.

\* image_dir = f"images_{paper_id}_{date}" (lines 196-198).
ImageDirOf(paper_id) == <<"I", ToString(paper_id)>>

ImageDir == ImageDirOf(top_papers[idx].id)

\* The ids an OCR response gives its images; "a" is a prefix of "a0".
ImgIds == {<<"a">>, <<"a", "0">>}

\* The URL the image host returns for the upload of an image.
Url(img_id) ==
    IF img_id = <<"a">> THEN <<"h", "/", "/", "s", "/", "x">>
                        ELSE <<"h", "/", "/", "s", "/", "y">>

\* The values of config["output_dir"]: the default "./data", "data", "".
OutputDirs == {<<".", "/", "D">>, <<"D">>, <<>>}

\* What a summary may hold: a reference to an image under the recorded or
\* another images_ directory, spelled with or without "./" and "data/", a
\* remote URL, a word, or a stray piece of a path.
RefItems ==
    {pre \o <<"I", d, "/">> \o id :
        pre \in {<<>>, <<".", "/">>, <<"D", "/">>, <<".", "/", "D", "/">>},
        d \in {"7", "9"}, id \in ImgIds}

Items ==
    RefItems \cup {Url(id) : id \in ImgIds}
             \cup {<<"w">>, <<".", "/">>, <<"/">>, <<"0">>}

RECURSIVE TextsOf(_)
TextsOf(n) ==
    IF n = 0 THEN {<<>>}
    ELSE LET T == TextsOf(n - 1)
         IN  T \cup {t \o i : t \in T, i \in Items}

\* The orders in which the image loop can have uploaded the images.
UploadOrders ==
    {<<>>} \cup {<<i>> : i \in ImgIds}
           \cup {p \in ImgIds \X ImgIds : p[1] # p[2]}

-----------------------------------------------------------------------------
\* The alias map (process_paper, lines 359-383).

normalize_path(path) == LStrip(path, {".", "/"})

\* d[k] = v on an insertion-ordered dict.
DictSet(d, k, v) ==
    IF \E i \in 1..Len(d) : d[i].path = k
    THEN [i \in 1..Len(d) |-> IF d[i].path = k THEN [path |-> k, url |-> v]
                                               ELSE d[i]]
    ELSE Append(d, [path |-> k, url |-> v])

DictKeys(d) == {d[i].path : i \in 1..Len(d)}

\* The body of the loop with the "./" spelling left out.
AddVariantsNoPrefix(emap, local_path, online_url) ==
    LET e1 == DictSet(emap, local_path, online_url)
        normalized_path == normalize_path(local_path)
    IN  IF normalized_path # local_path
        THEN DictSet(e1, normalized_path, online_url) ELSE e1

\* The body of the loop of lines 366-377 for one entry of image_url_map.
AddVariants(emap, local_path, online_url) ==
    LET e1 == DictSet(emap, local_path, online_url)
        normalized_path == normalize_path(local_path)
        e2 == IF normalized_path # local_path
              THEN DictSet(e1, normalized_path, online_url) ELSE e1
    IN  IF ~StartsWith(local_path, <<".", "/">>)
        THEN DictSet(e2, <<".", "/">> \o local_path, online_url) ELSE e2

RECURSIVE EnhancedFrom(_, _, _)
EnhancedFrom(m, i, emap) ==
    IF i > Len(m) THEN emap
    ELSE EnhancedFrom(m, i + 1, AddVariants(emap, m[i].path, m[i].url))

\* enhanced_image_map as built from image_url_map.
EnhancedImageMap(m) == EnhancedFrom(m, 1, <<>>)

-----------------------------------------------------------------------------
\* Pass 1 (lines 385-390): literal replacement in insertion order.

RECURSIVE Pass1From(_, _, _)
\* A replacement the wrong way round: the first URL by its path.
Pass1FromUrlToPath(text, emap, i) ==
    IF emap = <<>> THEN text ELSE Replace(text, emap[1].url, emap[1].path)

Pass1From(text, emap, i) ==
    IF i > Len(emap) THEN text
    ELSE Pass1From(Replace(text, emap[i].path, emap[i].url), emap, i + 1)

\* A pass 1 that replaces only the paths recorded during rehosting.
Pass1RecordedOnly(text, m) == Pass1From(text, m, 1)

Pass1(text, m) == Pass1From(text, EnhancedImageMap(m), 1)

-----------------------------------------------------------------------------
\* Pass 2 (lines 392-414): (\./)?(?:data/)?images_[^/]+/<filename>

\* The length of the longest run of non-slash symbols of s from p.
RECURSIVE NonSlashRun(_, _)
NonSlashRun(s, p) ==
    IF p > Len(s) \/ s[p] = "/" THEN 0 ELSE 1 + NonSlashRun(s, p + 1)

\* re.match of the pattern at p: the index after the match, 0 for no match.
\* Each optional group is taken when present: were the rest to fail after
\* it, it fails without it as well ("." and "d" do not start "images_").
MatchEnd(s, p, filename) ==
    LET p1 == IF IsAt(s, p, <<".", "/">>) THEN p + 2 ELSE p
        p2 == IF IsAt(s, p1, <<"D", "/">>) THEN p1 + 2 ELSE p1
        run == NonSlashRun(s, p2 + 1)
        q == p2 + 1 + run
    IN  IF /\ IsAt(s, p2, <<"I">>)
           /\ run >= 1
           /\ IsAt(s, q, <<"/">> \o filename)
        THEN q + 1 + Len(filename)
        ELSE 0

RECURSIVE FindIter(_, _, _)
\* re.finditer: the matched texts, leftmost first, without overlap.
FindIter(s, p, filename) ==
    IF p > Len(s) THEN <<>>
    ELSE LET e == MatchEnd(s, p, filename)
         IN  IF e > 0 THEN <<SubSeq(s, p, e - 1)>> \o FindIter(s, e, filename)
                      ELSE FindIter(s, p + 1, filename)

RECURSIVE ReplaceMatches(_, _, _, _, _)
\* Lines 401-414 for one image: the matches were found in the text as it
\* was when finditer was called.
ReplaceMatches(text, matches, i, online_url, emap) ==
    IF i > Len(matches) THEN text
    ELSE LET matched_path == matches[i]
         IN  ReplaceMatches(
                 IF Contains(text, matched_path)
                    /\ matched_path \notin DictKeys(emap)
                 THEN Replace(text, matched_path, online_url) ELSE text,
                 matches, i + 1, online_url, emap)

RECURSIVE Pass2From(_, _, _, _)
Pass2From(text, m, emap, i) ==
    IF i > Len(m) THEN text
    ELSE Pass2From(
             ReplaceMatches(text, FindIter(text, 1, Basename(m[i].path)), 1,
                            m[i].url, emap),
             m, emap, i + 1)

Pass2(text, m) == Pass2From(text, m, EnhancedImageMap(m), 1)

\* The whole rewrite of lines 356-414.
Rewrite(text, m) == Pass2(Pass1(text, m), m)

-----------------------------------------------------------------------------
\* The rewrite as steps of process_paper.

\* image_url_map after the image loop uploaded `ids` in this order.
UrlMapOf(dir, ids) ==
    [i \in 1..Len(ids) |->
        [path |-> PathJoin(dir, ImageDir, ids[i]), url |-> Url(ids[i])]]

InitRewrite ==
    /\ pc = "summarized"
    /\ output_dir \in OutputDirs
    /\ converter = "mistral_ocr"
    /\ smms_key = TRUE
    /\ env = NoEnv
    /\ OuterIdle
    /\ OnePaper(<<"Selected", "Retrieved", "Normalized", "Rehosted", "Summarized">>,
                <<"download_pdf", "convert", "summarize">>)
    /\ \E ids \in UploadOrders : image_url_map = UrlMapOf(output_dir, ids)
    /\ summary \in TextsOf(MaxItems)
    /\ processed_summary = summary
    /\ rewritten_once = <<>>
    /\ DownloadIdle
    /\ ImagesIdle

RewritePass1 ==
    /\ pc = "summarized"
    /\ processed_summary' = Pass1(summary, image_url_map)
    /\ calls' = Append(calls, "rewrite")
    /\ UNCHANGED <<image_url_map, summary, rewritten_once, stages>>

RewritePass2 ==
    /\ pc = "pass1"
    /\ processed_summary' = Pass2(processed_summary, image_url_map)
    /\ rewritten_once' = processed_summary'
    /\ stages' = Append(stages, "Rewritten")
    /\ UNCHANGED <<image_url_map, summary, calls>>

\* The rewrite applied to its own output.
RewriteAgain ==
    /\ pc = "rewritten"
    /\ processed_summary' = Rewrite(processed_summary, image_url_map)
    /\ pc' = "again"
    /\ UNCHANGED <<image_url_map, summary, rewritten_once, stages, calls>>

\* What the steps of the rewrite leave alone.
RewriteFrame == UNCHANGED <<cfgVars, outerVars, dlVars, imVars, ppRest>>

NextRewrite ==
    \/ (RewritePass1 /\ pc' = "pass1" /\ RewriteFrame)
    \/ (RewritePass2 /\ pc' = "rewritten" /\ RewriteFrame)
    \/ (RewriteAgain /\ RewriteFrame)

SpecRewrite == InitRewrite /\ [][NextRewrite]_vars

-----------------------------------------------------------------------------
\* process_paper up to the conversion (paper_pipeline.py, lines 159-228).

\* The stages of a paper, in the order process_paper goes through them.
StageOrder ==
    <<"Selected", "Retrieved", "Normalized", "Rehosted", "Summarized",
      "Rewritten", "Saved">>

\* The exceptions the calls of process_paper raise: the errors of requests,
\* of the file system, of a response of the wrong shape, and the plain
\* Exception of the converters and the clients.  All derive from Exception.
Exceptions == {"RequestException", "OSError", "KeyError", "Exception"}

\* except Exception narrowed to the errors of requests.
HandlerCatchesRequestErrors(kind) == kind = "RequestException"

\* except Exception (lines 222, 330 and 424).
HandlerCatches(kind) == kind \in Exceptions

\* The variables of main's loop that process_paper cannot reach.
batchVars == <<top_papers, idx, summary_files, files, reached>>

\* result.json and what was read from it.
jsonVars == <<result_json, loaded>>

\* process_paper goes on to its next step.
Continue(to) ==
    /\ pc' = to
    /\ UNCHANGED <<result, failure, main_pc>>

\* return None (lines 170, 187, 224, 328, 335 and 430).
ReturnNone(why) ==
    /\ pc' = "returned"
    /\ result' = ""
    /\ failure' = why
    /\ UNCHANGED main_pc

\* An exception raised inside the try of lines 173-422: the handler of line
\* 424 logs it and line 430 returns None; an exception no handler catches
\* leaves process_paper and ends main.
Raise(kind, why) ==
    IF HandlerCatches(kind)
    THEN ReturnNone(why)
    ELSE /\ pc' = "aborted"
         /\ main_pc' = "aborted"
         /\ result' = ""
         /\ failure' = why

\* The locals of download_pdf when it is called with the default
\* max_retries (at = "resolve") and once its result was unpacked ("idle").
DownloadEnter(at) ==
    /\ dl_pc' = at
    /\ max_retries' = DefaultMaxRetries
    /\ attempt' = 0
    /\ timeout' = <<InitialTimeout, 1>>
    /\ pdf_url' = ""
    /\ arxiv_url' = ""
    /\ download_result' = [filename |-> "", arxiv_url |-> ""]
    /\ requests_log' = <<>>
    /\ pdf_written' = "none"

\* Lines 159-175: a paper without a link returns None before the try;
\* otherwise download_pdf is called.
ProcessStart ==
    /\ pc = "start"
    /\ main_pc = "processing"
    /\ IF top_papers[idx].url = ""
       THEN /\ ReturnNone("no_url")
            /\ UNCHANGED <<calls, dlVars>>
       ELSE /\ Continue("download")
            /\ calls' = Append(calls, "download_pdf")
            /\ DownloadEnter("resolve")
    /\ UNCHANGED <<cfgVars, outerVars, rwVars, imVars, batchVars, stages, smms_uploader,
                   jsonVars>>

\* if not latest_pdf, with the test left out.
DownloadFailedNever(res) == FALSE

\* if not latest_pdf (line 185).
DownloadFailed(res) == res.filename = ""

\* Lines 177-210: the result of download_pdf is unpacked; without a file
\* process_paper returns None, with one it creates the image directory
\* (os.makedirs can fail), the uploader (None without SMMS_API_KEY) and an
\* empty image_url_map.  An error download_pdf did not catch arrives at the
\* handler of line 424.
DownloadReturned ==
    /\ pc = "download"
    /\ dl_pc \in {"returned", "raised"}
    /\ IF dl_pc = "raised"
       THEN /\ Raise("OSError", "download_error")
            /\ UNCHANGED <<stages, smms_uploader, image_url_map>>
       ELSE IF DownloadFailed(download_result)
       THEN /\ ReturnNone(IF pdf_url = "" THEN "no_link" ELSE "download_exhausted")
            /\ UNCHANGED <<stages, smms_uploader, image_url_map>>
       ELSE /\ stages' = IF download_result.filename # ""
                         THEN Append(stages, "Retrieved") ELSE stages
            /\ \E made \in BOOLEAN :
                  IF made
                  THEN /\ Continue("convert")
                       /\ smms_uploader' = smms_key
                       /\ image_url_map' = <<>>
                  ELSE /\ Raise("OSError", "file_error")
                       /\ UNCHANGED <<smms_uploader, image_url_map>>
    /\ DownloadEnter("idle")
    /\ UNCHANGED <<cfgVars, outerVars, summary, processed_summary, rewritten_once, imVars,
                   batchVars, calls, jsonVars>>

\* The converters of config["pdf_to_markdown"]["converter"] (line 193).
Converters == {"doc2x", "mistral_ocr"}

\* The conversion responses of a run over a whole batch: a document that is
\* not of the expected shape (-1 pages), one without pages, one of one
\* page, which holds no or one image descriptor.
PageCounts == {-1, 0, 1}

ImageCounts == {0, 1}

\* A converter whose failure is not raised to process_paper.
ConvertRaisesNever(o) == FALSE

\* convert_to_markdown returns only after it wrote result.json; every
\* failure of it is an exception (get_markdown_doc2x.py, lines 41-64,
\* get_markdown_mistral.py, lines 12-34).
ConvertRaises(o) == o # "ok"

\* Lines 212-214 and 226-228: the converter raises (a request error or its
\* own Exception) or writes result.json: n_pages pages (-1: a document
\* that is not of the expected shape) holding images_left image
\* descriptors in all.
Convert ==
    /\ pc = "convert"
    /\ calls' = Append(calls, "convert")
    /\ \E o \in {"ok", "RequestException", "Exception"} :
          /\ result_json' = IF o = "ok" THEN top_papers[idx].id ELSE result_json
          /\ IF ConvertRaises(o)
             THEN /\ Raise(o, "convert_error")
                  /\ UNCHANGED <<n_pages, images_left>>
             ELSE /\ Continue("load")
                  /\ n_pages' \in PageCounts
                  /\ images_left' \in IF converter = "doc2x" \/ n_pages' < 1
                                      THEN {0} ELSE ImageCounts
    /\ UNCHANGED <<cfgVars, outerVars, rwVars, dlVars, page_no, n_images, img_no, content,
                   page_content, image_refs, seen, materialized, uploads,
                   hosted, missing, dropped, batchVars, stages, smms_uploader,
                   loaded>>

-----------------------------------------------------------------------------
\* The image loop (paper_pipeline.py, lines 216-335).

\* f"![{img_id}]({img_id})": the reference the OCR puts in a page.
Ref(img_id) == <<"![">> \o img_id \o <<"](">> \o img_id \o <<")">>

\* f"![Figure from paper]({img_filename})"
LocalRef(img_filename) == <<"![F](">> \o img_filename \o <<")">>

\* page["markdown"]: missing or empty, prose, a reference to image "a".
Markdowns == {<<>>, <<"w">>, Ref(<<"a">>)}

\* A page that is no object of the expected shape.
BadPage == <<"?">>

\* The text of a doc2x document of n pages, "".join of their "md".
DocTexts(n) == IF n = 0 THEN {<<>>} ELSE {<<>>, <<"w">>}

\* The entries of page["images"]: base-64 data that decodes and is written,
\* data that does not decode or a file that cannot be opened, a write that
\* fails after the file was opened, a source file that exists and is
\* copied, one that does not exist, one whose copy fails, and an entry
\* without "id".
Descriptors ==
    {[kind |-> k, id |-> i] :
        k \in {"b64", "b64_bad", "b64_write_error", "file", "file_missing",
               "file_copy_error"},
        i \in ImgIds}
    \cup {[kind |-> "no_id", id |-> <<>>]}

\* if img_id in image_refs, with the test left out.
AlreadyProcessedNever(img_id, refs) == FALSE

\* if img_id in image_refs (line 247).
AlreadyProcessed(img_id, refs) == img_id \in refs

\* The test for the shape of the response, always passed.
ResponseParsesAlways(n) == TRUE

\* data["pages"] and ocr_response["pages"] (lines 219 and 238) are there.
ResponseParses(n) == n >= 0

\* Lines 216-236: result.json is read.  A document of the wrong shape (no
\* "pages", a page without "md") raises inside the inner try and returns
\* None; doc2x joins the pages' text, Mistral starts the loop over pages.
LoadResult ==
    /\ pc = "load"
    /\ loaded' = result_json
    /\ IF result_json = 0 \/ ~ResponseParses(n_pages)
       THEN /\ Raise(IF result_json = 0 THEN "OSError" ELSE "KeyError",
                     "parse_error")
            /\ UNCHANGED <<content, image_refs, page_no, stages>>
       ELSE IF converter = "doc2x"
       THEN /\ content' \in DocTexts(n_pages)
            /\ stages' = stages \o <<"Normalized", "Rehosted">>
            /\ Continue("summarize")
            /\ UNCHANGED <<image_refs, page_no>>
       ELSE /\ content' = <<>>
            /\ image_refs' = {}
            /\ page_no' = 0
            /\ Continue("page")
            /\ UNCHANGED stages
    /\ UNCHANGED <<cfgVars, outerVars, rwVars, dlVars, n_pages, images_left, n_images,
                   img_no, page_content, seen, materialized, uploads,
                   hosted, missing, dropped, batchVars, calls, smms_uploader,
                   result_json>>

\* The test of line 239 left out: every page is processed.
PageDroppedNever(md) == FALSE

\* if not page.get("markdown") (line 239).
PageDropped(md) == md = <<>>

\* Lines 238-245 and 326-328: the next page, or the end of the loop.  A
\* page without markdown is skipped; a document without content returns
\* None.
PageStep ==
    /\ pc = "page"
    /\ IF page_no = n_pages
       THEN /\ IF content = <<>>
               THEN /\ ReturnNone("no_content")
                    /\ UNCHANGED stages
               ELSE /\ Continue("summarize")
                    /\ stages' = stages \o <<"Normalized", "Rehosted">>
            /\ UNCHANGED <<page_no, images_left, n_images, img_no, page_content,
                           dropped>>
       ELSE \E md \in Markdowns \cup {BadPage} :
            \E k \in IF md = BadPage THEN {0} ELSE 0..images_left :
               /\ page_no' = page_no + 1
               /\ images_left' = images_left - k
               /\ IF md = BadPage
                  THEN /\ Raise("KeyError", "parse_error")
                       /\ UNCHANGED <<n_images, img_no, page_content, dropped>>
                  ELSE IF PageDropped(md)
                  THEN /\ Continue("page")
                       /\ dropped' = dropped + k
                       /\ UNCHANGED <<n_images, img_no, page_content>>
                  ELSE /\ Continue("image")
                       /\ page_content' = md
                       /\ n_images' = k
                       /\ img_no' = 0
                       /\ UNCHANGED dropped
               /\ UNCHANGED stages
    /\ UNCHANGED <<cfgVars, outerVars, rwVars, dlVars, n_pages, content, image_refs, seen,
                   materialized, uploads, hosted, missing, batchVars, calls,
                   smms_uploader, jsonVars>>

\* The entries passed over, with the test for the source file left out.
SkippedBadDataOnly(d) == d.kind = "b64_bad"

\* The entries the loop passes over with `continue`: data that does not
\* decode or cannot be written (lines 282-284) and a source file that does
\* not exist (lines 311-313).
Skipped(d) == d.kind \in {"b64_bad", "file_missing"}

\* Lines 246-322 for the descriptor d of the current page; uploaded tells
\* whether upload_image returned a URL (True) or raised (False).  An entry
\* without "id" and a copy that fails raise out of the loop, to the handler
\* of line 330.
ProcessImage(d, uploaded) ==
    LET img_filename == PathJoin(output_dir, ImageDir, d.id)
        here == [page |-> page_no, id |-> d.id]
        not_found == IF d.kind = "file_missing"
                     THEN Append(missing, d.id) ELSE missing
    IN  IF d.kind = "no_id"
        THEN /\ Raise("KeyError", "image_error")
             /\ UNCHANGED <<seen, materialized, uploads, hosted, missing,
                            image_url_map, calls, page_content, image_refs>>
        ELSE IF AlreadyProcessed(d.id, image_refs)
        THEN /\ Continue("image")
             /\ seen' = Append(seen, here)
             /\ UNCHANGED <<materialized, uploads, hosted, missing,
                            image_url_map, calls, page_content, image_refs>>
        ELSE IF Skipped(d)
        THEN /\ Continue("image")
             /\ seen' = Append(seen, here)
             /\ missing' = not_found
             /\ UNCHANGED <<materialized, uploads, hosted, image_url_map, calls,
                            page_content, image_refs>>
        ELSE IF d.kind = "b64_write_error"
        THEN /\ Continue("image")
             /\ seen' = Append(seen, here)
             /\ materialized' = Append(materialized, [id |-> d.id, whole |-> FALSE])
             /\ UNCHANGED <<uploads, hosted, missing, image_url_map, calls,
                            page_content, image_refs>>
        ELSE IF d.kind = "file_copy_error"
        THEN /\ Raise("OSError", "image_error")
             /\ seen' = Append(seen, here)
             /\ UNCHANGED <<materialized, uploads, hosted, missing,
                            image_url_map, calls, page_content, image_refs>>
        ELSE /\ Continue("image")
             /\ seen' = Append(seen, here)
             /\ missing' = not_found
             /\ materialized' = Append(materialized, [id |-> d.id, whole |-> TRUE])
             /\ IF smms_uploader
                THEN /\ uploads' = Append(uploads, d.id)
                     /\ calls' = Append(calls, "upload")
                     /\ image_url_map' =
                           IF uploaded
                           THEN DictSet(image_url_map, img_filename, Url(d.id))
                           ELSE image_url_map
                     /\ hosted' = IF uploaded THEN hosted \cup {d.id} ELSE hosted
                ELSE UNCHANGED <<uploads, image_url_map, calls, hosted>>
             /\ page_content' = Replace(page_content, Ref(d.id),
                                        LocalRef(img_filename))
             /\ image_refs' = image_refs \cup {d.id}

\* One iteration of the loop over page["images"], or its end: content +=
\* page_content (line 324).
ImageStep ==
    /\ pc = "image"
    /\ IF img_no = n_images
       THEN /\ content' = content \o page_content
            /\ Continue("page")
            /\ UNCHANGED <<img_no, page_content, image_refs, seen, materialized,
                           uploads, hosted, missing, image_url_map, calls>>
       ELSE /\ img_no' = img_no + 1
            /\ \E d \in Descriptors, uploaded \in BOOLEAN :
                  ProcessImage(d, uploaded)
            /\ UNCHANGED content
    /\ UNCHANGED <<cfgVars, outerVars, summary, processed_summary, rewritten_once, dlVars,
                   n_pages, images_left, page_no, n_images, dropped, batchVars,
                   stages, smms_uploader, jsonVars>>

\* The image loop on a downloaded paper, for every converted document of
\* up to MaxPages pages and MaxDescriptors image descriptors.
InitImages ==
    /\ pc = "load"
    /\ output_dir = <<".", "/", "D">>
    /\ converter \in Converters
    /\ smms_key \in BOOLEAN
    /\ env = NoEnv
    /\ OuterIdle
    /\ OnePaper(<<"Selected", "Retrieved">>, <<"download_pdf", "convert">>)
    /\ RewriteIdle
    /\ DownloadIdle
    /\ n_pages \in -1..MaxPages
    /\ images_left \in IF converter = "doc2x" \/ n_pages < 1
                       THEN {0} ELSE 0..MaxDescriptors
    /\ page_no = 0
    /\ n_images = 0
    /\ img_no = 0
    /\ content = <<>>
    /\ page_content = <<>>
    /\ image_refs = {}
    /\ seen = <<>>
    /\ materialized = <<>>
    /\ uploads = <<>>
    /\ hosted = {}
    /\ missing = <<>>
    /\ dropped = 0

NextImages ==
    \/ LoadResult
    \/ PageStep
    \/ ImageStep

SpecImages == InitImages /\ [][NextImages]_vars

-----------------------------------------------------------------------------
\* The summary, its file and main's loop (paper_pipeline.py, lines 337-430
\* and 486-491).

\* What summarize_paper returns for the papers of a batch: nothing, prose,
\* the path of an image as the document spells it, the same path without
\* the output directory, and the path of any image the document refers to.
Summaries ==
    {<<>>, <<"w">>} \cup {PathJoin(output_dir, ImageDir, <<"a">>),
                          Join2(ImageDir, <<"a">>)}
                   \cup {PathJoin(output_dir, ImageDir, id) : id \in image_refs}

\* Lines 337-357: the summarizer raises (the request fails, the reply has
\* no content) or returns the summary.
Summarize ==
    /\ pc = "summarize"
    /\ calls' = Append(calls, "summarize")
    /\ \E o \in {"ok", "Exception"} :
          IF o = "ok"
          THEN /\ summary' \in Summaries
               /\ processed_summary' = summary'
               /\ stages' = Append(stages, "Summarized")
               /\ Continue("summarized")
          ELSE /\ Raise(o, "summarizer_error")
               /\ UNCHANGED <<summary, processed_summary, stages>>
    /\ UNCHANGED <<cfgVars, outerVars, image_url_map, rewritten_once, dlVars, imVars,
                   batchVars, smms_uploader, jsonVars>>

\* f"summary_{paper_info.id}_{date}.md" (line 417).
SummaryName(paper_id) == "summary_" \o ToString(paper_id) \o ".md"

\* open(name, "w") followed by write(text) on the files of the working
\* directory.
FileWrite(fs, name, text) ==
    IF \E i \in 1..Len(fs) : fs[i].name = name
    THEN [i \in 1..Len(fs) |->
            IF fs[i].name = name THEN [name |-> name, text |-> text] ELSE fs[i]]
    ELSE Append(fs, [name |-> name, text |-> text])

\* f.write(content): the document in place of its summary.
SavedTextDocument(sum, processed) == content

\* f.write(summary): the text as the summarizer returned it.
SavedTextUnrewritten(sum, processed) == sum

\* f.write(processed_summary) (line 419).
SavedText(sum, processed) == processed

\* Lines 416-422: the file is written and its name returned; open can fail,
\* and write can fail after open has created or truncated the file.
SaveSummary ==
    /\ pc = "rewritten"
    /\ main_pc = "processing"
    /\ calls' = Append(calls, "write")
    /\ LET filename == SummaryName(top_papers[idx].id)
       IN  \E o \in {"ok", "open_error", "write_error"} :
              IF o = "ok"
              THEN /\ files' = FileWrite(files, filename,
                                         SavedText(summary, processed_summary))
                   /\ stages' = Append(stages, "Saved")
                   /\ pc' = "returned"
                   /\ result' = filename
                   /\ UNCHANGED <<failure, main_pc>>
              ELSE /\ Raise("OSError", "file_error")
                   /\ files' = IF o = "write_error"
                               THEN FileWrite(files, filename, <<>>) ELSE files
                   /\ UNCHANGED stages
    /\ UNCHANGED <<cfgVars, outerVars, rwVars, dlVars, imVars, top_papers, idx,
                   summary_files, reached, smms_uploader, jsonVars>>

\* The comprehension of line 487 without its condition.
CollectAll(collected, summary_file) == Append(collected, summary_file)

\* [summary_file for paper in top_papers if (summary_file := ...)], one
\* element at a time (lines 487-489).
Collect(collected, summary_file) ==
    IF summary_file # "" THEN Append(collected, summary_file) ELSE collected

\* Lines 487-491: process_paper returned; its result is collected and the
\* next paper is started, or main ends.  `reached` keeps, for every call
\* of process_paper, its paper, the last stage it reached, why it failed
\* and what was called for it.
MainNext ==
    /\ main_pc = "processing"
    /\ pc = "returned"
    /\ summary_files' = Collect(summary_files, result)
    /\ reached' = Append(reached, [paper |-> top_papers[idx].id,
                                   last |-> stages[Len(stages)],
                                   failure |-> failure,
                                   ops |-> {calls[i] : i \in 1..Len(calls)}])
    /\ IF idx < Len(top_papers)
       THEN /\ idx' = idx + 1
            /\ pc' = "start"
            /\ UNCHANGED main_pc
       ELSE /\ pc' = "idle"
            /\ main_pc' = "done"
            /\ UNCHANGED idx
    /\ result' = ""
    /\ failure' = ""
    /\ stages' = <<"Selected">>
    /\ calls' = <<>>
    /\ smms_uploader' = FALSE
    /\ image_url_map' = <<>>
    /\ summary' = <<>>
    /\ processed_summary' = <<>>
    /\ rewritten_once' = <<>>
    /\ n_pages' = 0
    /\ images_left' = 0
    /\ page_no' = 0
    /\ n_images' = 0
    /\ img_no' = 0
    /\ content' = <<>>
    /\ page_content' = <<>>
    /\ image_refs' = {}
    /\ seen' = <<>>
    /\ materialized' = <<>>
    /\ uploads' = <<>>
    /\ hosted' = {}
    /\ missing' = <<>>
    /\ dropped' = 0
    /\ loaded' = 0
    /\ UNCHANGED result_json
    /\ UNCHANGED <<cfgVars, outerVars, dlVars, top_papers, files>>

\* The writer of a result.json a run finds in its working directory.
EarlierRun == 1

\* The id of the i-th paper of a batch: 7, 9, 11, ...
PaperIdAt(i) == 5 + 2 * i

\* The batches rank_and_select_papers returns: one to MaxPapers papers of
\* distinct ids, each with a link ("u") or without one.
Batches ==
    UNION {{[i \in 1..n |-> [id |-> PaperIdAt(i), url |-> u[i]]] :
               u \in [1..n -> {"", "u"}]} : n \in 1..MaxPapers}

\* main at Step 3 (line 486) with a batch, for both converters, with and
\* without the image host's token, behind a proxy.
Init ==
    /\ pc = "start"
    /\ output_dir = <<".", "/", "D">>
    /\ converter \in Converters
    /\ smms_key \in BOOLEAN
    /\ env = [NoEnv EXCEPT !.HTTP_PROXY = "P", !.HTTPS_PROXY = "P"]
    /\ OuterIdle
    /\ RewriteIdle
    /\ DownloadIdle
    /\ ImagesIdle
    /\ main_pc = "processing"
    /\ top_papers \in Batches
    /\ idx = 1
    /\ summary_files = <<>>
    /\ files = <<>>
    /\ reached = <<>>
    /\ result = ""
    /\ failure = ""
    /\ stages = <<"Selected">>
    /\ calls = <<>>
    /\ smms_uploader = FALSE
    /\ result_json \in {0, EarlierRun}
    /\ loaded = 0

Next ==
    \/ ProcessStart
    \/ (pc = "download" /\ NextDownload)
    \/ DownloadReturned
    \/ Convert
    \/ LoadResult
    \/ PageStep
    \/ ImageStep
    \/ Summarize
    \/ (RewritePass1 /\ pc' = "pass1" /\ RewriteFrame)
    \/ (RewritePass2 /\ pc' = "rewritten" /\ RewriteFrame)
    \/ SaveSummary
    \/ MainNext

Spec == Init /\ [][Next]_vars

\* The sizes of the converted document of a single paper: its pages (-1
\* for a response without "pages") and its image descriptors.
PaperPages == {-1, 0, 1, 2}

PaperImages == {0, 1, 2}

\* process_paper from the reading of result.json (line 216) to its return,
\* for one downloaded paper and every configured output directory.
InitPaper ==
    /\ pc = "load"
    /\ output_dir \in OutputDirs
    /\ converter \in Converters
    /\ smms_key \in BOOLEAN
    /\ env = NoEnv
    /\ OuterIdle
    /\ OnePaper(<<"Selected", "Retrieved">>, <<"download_pdf", "convert">>)
    /\ RewriteIdle
    /\ DownloadIdle
    /\ n_pages \in PaperPages
    /\ images_left \in IF converter = "doc2x" \/ n_pages < 1
                       THEN {0} ELSE PaperImages
    /\ page_no = 0
    /\ n_images = 0
    /\ img_no = 0
    /\ content = <<>>
    /\ page_content = <<>>
    /\ image_refs = {}
    /\ seen = <<>>
    /\ materialized = <<>>
    /\ uploads = <<>>
    /\ hosted = {}
    /\ missing = <<>>
    /\ dropped = 0

NextPaper ==
    \/ LoadResult
    \/ PageStep
    \/ ImageStep
    \/ Summarize
    \/ (RewritePass1 /\ pc' = "pass1" /\ RewriteFrame)
    \/ (RewritePass2 /\ pc' = "rewritten" /\ RewriteFrame)
    \/ SaveSummary

SpecPaper == InitPaper /\ [][NextPaper]_vars

-----------------------------------------------------------------------------
\* main's Steps 1 and 2 over the catalog (paper_pipeline.py, lines 88-148
\* and 457-485; papers_with_code.py, lines 131-175; ranking.py, lines
\* 15-23), over several runs of the program.

\* Most runs of main on one catalog.
MaxRuns == 2

\* paper_ranking.default_limit and paper_ranking.fallback_limit (lines
\* 444-449 and 455-456).
default_ranking_limit == 3

fallback_ranking_limit == 1

\* What the ranking model answers: up to four entries, each the id of a
\* paper, an id no paper has (0) or something that is no integer (-1).
RankedEntries == CatalogPapers \cup {0, -1}

Rankings == UNION {[1..n -> RankedEntries] : n \in 0..4}

\* [pid for pid in ranked_paper_ids if isinstance(pid, int)]
RECURSIVE Ints(_)
Ints(ids) ==
    IF ids = <<>> THEN <<>>
    ELSE IF Head(ids) >= 0 THEN <<Head(ids)>> \o Ints(Tail(ids))
         ELSE Ints(Tail(ids))

\* s[:] in place of s[:n].
TakeAll(s, n) == s

\* s[:n]
Take(s, n) == SubSeq(s, 1, IF Len(s) < n THEN Len(s) ELSE n)

\* The loop of lines 125-146: the ids for which the catalog has a paper.
RECURSIVE Found(_, _)
Found(ids, cat) ==
    IF ids = <<>> THEN <<>>
    ELSE IF Head(ids) \in CatalogPapers /\ cat[Head(ids)] # "absent"
         THEN <<Head(ids)>> \o Found(Tail(ids), cat)
         ELSE Found(Tail(ids), cat)

\* The loop of lines 125-146 without line 146.
MarkReadNever(cat, ids) == cat

\* paper.thoroughly_read = True (line 146) for every selected paper.
MarkRead(cat, ids) ==
    [p \in CatalogPapers |->
        IF \E i \in 1..Len(ids) : ids[i] = p THEN "read" ELSE cat[p]]

\* save_papers_to_db: a scraped paper the catalog has is updated and keeps
\* its thoroughly_read, one it has not is added unread.
SavePapers(cat, scraped) ==
    [p \in CatalogPapers |->
        IF p \in scraped /\ cat[p] = "absent" THEN "unread" ELSE cat[p]]

\* get_random_papers: the unread papers (all of them, as a catalog of
\* CatalogPapers holds fewer than 20).
Unread(cat) == {p \in CatalogPapers : cat[p] = "unread"}

\* The variables of a run before its Step 1.
RunStart ==
    /\ paper_count' = 0
    /\ new_count' = 0
    /\ limit' = 0
    /\ selected' = <<>>
    /\ proc_idx' = 0
    /\ offered' = {}

\* Line 458, fetch_latest_papers: the scrape raises, which ends main, or
\* its papers are saved; new_count + updated_count is returned.
Fetch ==
    /\ run_pc = "fetch"
    /\ \/ /\ run_pc' = "done"
          /\ UNCHANGED <<catalog, paper_count, new_count>>
       \/ \E scraped \in SUBSET CatalogPapers :
             LET added == {p \in scraped : catalog[p] = "absent"}
                 updated == scraped \ added
             IN  /\ catalog' = SavePapers(catalog, scraped)
                 /\ new_count' = Cardinality(added)
                 /\ paper_count' = Cardinality(added) + Cardinality(updated)
                 /\ run_pc' = "select"
    /\ UNCHANGED <<run_no, limit, selected, proc_idx, offered, failed>>

\* Lines 460-485 with rank_and_select_papers (lines 104-148): main returns
\* when there is nothing to read; otherwise the unread papers are ranked,
\* the papers found for the first `limit` integer ids are marked read and
\* returned.  The commit at the end of the session can fail, which ends
\* main with nothing marked.
Select ==
    /\ run_pc = "select"
    /\ LET unread_papers_exist == Unread(catalog) # {}
           lim == IF paper_count = 0 THEN fallback_ranking_limit
                                     ELSE default_ranking_limit
       IN  IF paper_count = 0 /\ ~unread_papers_exist
           THEN /\ run_pc' = "done"
                /\ UNCHANGED <<catalog, limit, selected, offered>>
           ELSE /\ limit' = lim
                /\ offered' = Unread(catalog)
                /\ IF Unread(catalog) = {}
                   THEN /\ run_pc' = "done"
                        /\ UNCHANGED <<catalog, selected>>
                   ELSE \E ranked_paper_ids \in Rankings, committed \in BOOLEAN :
                           LET top_papers_ids ==
                                   Found(Take(Ints(ranked_paper_ids), lim),
                                         catalog)
                           IN  IF committed
                               THEN /\ catalog' = MarkRead(catalog, top_papers_ids)
                                    /\ selected' = top_papers_ids
                                    /\ run_pc' = IF top_papers_ids = <<>>
                                                 THEN "done" ELSE "process"
                               ELSE /\ run_pc' = "done"
                                    /\ UNCHANGED <<catalog, selected>>
    /\ UNCHANGED <<run_no, paper_count, new_count, proc_idx, failed>>

\* Lines 486-489: process_paper is called on the next selected paper and
\* returns a file name or None.
ProcessSelected ==
    /\ run_pc = "process"
    /\ proc_idx < Len(selected)
    /\ proc_idx' = proc_idx + 1
    /\ \E ok \in BOOLEAN :
          failed' = IF ok THEN failed
                    ELSE failed \cup {[id |-> selected[proc_idx + 1],
                                       run |-> run_no]}
    /\ UNCHANGED <<run_pc, run_no, catalog, paper_count, new_count, limit,
                   selected, offered>>

\* Line 491: main ends.
RunEnd ==
    /\ run_pc = "process"
    /\ proc_idx = Len(selected)
    /\ run_pc' = "done"
    /\ UNCHANGED <<run_no, catalog, paper_count, new_count, limit, selected,
                   proc_idx, offered, failed>>

\* The program is run again on the same catalog.
NextRun ==
    /\ run_pc = "done"
    /\ run_no < MaxRuns
    /\ run_no' = run_no + 1
    /\ run_pc' = "fetch"
    /\ RunStart
    /\ UNCHANGED <<catalog, failed>>

\* What Steps 1 and 2 leave alone.
CatalogFrame ==
    UNCHANGED <<pc, cfgVars, rwVars, dlVars, imVars, ppVars, pollVars, ranked,
                papers>>

\* The first run of main on a catalog that holds any papers, read or not.
InitCatalog ==
    /\ pc = "idle"
    /\ DefaultConfig
    /\ env = NoEnv
    /\ RewriteIdle
    /\ DownloadIdle
    /\ ImagesIdle
    /\ OnePaper(<<"Selected">>, <<>>)
    /\ poll_pc = "idle"
    /\ polls = 0
    /\ poll_file = "old"
    /\ run_pc = "fetch"
    /\ run_no = 1
    /\ catalog \in [CatalogPapers -> {"absent", "unread", "read"}]
    /\ paper_count = 0
    /\ new_count = 0
    /\ limit = 0
    /\ selected = <<>>
    /\ proc_idx = 0
    /\ offered = {}
    /\ failed = {}
    /\ ranked = <<>>
    /\ papers = <<>>

NextCatalog ==
    \/ (Fetch /\ CatalogFrame)
    \/ (Select /\ CatalogFrame)
    \/ (ProcessSelected /\ CatalogFrame)
    \/ (RunEnd /\ CatalogFrame)
    \/ (NextRun /\ CatalogFrame)

SpecCatalog == InitCatalog /\ [][NextCatalog]_vars

-----------------------------------------------------------------------------
\* convert_to_markdown of get_markdown_doc2x.py: the upload and the polling
\* loop, one status request a step.

\* max_retries of convert_to_markdown (line 48).
doc2x_max_retries == 1000

\* What one call of get_status gives the loop: an error raised by the
\* request (raise_for_status, or a code other than "success"), or the data
\* of the answer, of which the loop reads "status" and, on "success",
\* "result".
StatusAnswers ==
    {"request_error", "success", "success_without_result", "failed",
     "processing", "other"}

\* preupload (lines 13-21): it returns the upload url and the uid, or raises.
Preupload ==
    /\ poll_pc = "preupload"
    /\ \E o \in {"ok", "error"} :
          poll_pc' = IF o = "ok" THEN "put" ELSE "raised"
    /\ UNCHANGED <<polls, poll_file>>

\* put_file (lines 24-27): it raises when the upload is refused.
PutFile ==
    /\ poll_pc = "put"
    /\ \E o \in {"ok", "error"} :
          poll_pc' = IF o = "ok" THEN "poll" ELSE "raised"
    /\ UNCHANGED <<polls, poll_file>>

\* One pass of `for _ in range(max_retries)` (lines 49-63).  On "success"
\* result.json is opened for writing, which empties it, before
\* status_data["result"] is read; a missing "result" raises KeyError with
\* the file left empty.
GetStatus ==
    /\ poll_pc = "poll"
    /\ polls < doc2x_max_retries
    /\ polls' = polls + 1
    /\ \E a \in StatusAnswers :
          CASE a = "request_error" ->
                  poll_pc' = "raised" /\ UNCHANGED poll_file
            [] a = "success" ->
                  poll_pc' = "returned" /\ poll_file' = "result"
            [] a = "success_without_result" ->
                  poll_pc' = "raised" /\ poll_file' = "empty"
            [] a = "failed" ->
                  poll_pc' = "raised" /\ UNCHANGED poll_file
            [] OTHER ->
                  UNCHANGED <<poll_pc, poll_file>>

\* The loop ran its max_retries passes without an end (line 64).
Exhausted ==
    /\ poll_pc = "poll"
    /\ polls >= doc2x_max_retries
    /\ poll_pc' = "raised"
    /\ UNCHANGED <<polls, poll_file>>

\* What convert_to_markdown leaves alone.
PollFrame ==
    UNCHANGED <<pc, cfgVars, rwVars, dlVars, imVars, ppVars, mainVars>>

\* A call of convert_to_markdown, result.json as an earlier call left it.
InitPoll ==
    /\ pc = "idle"
    /\ DefaultConfig
    /\ env = NoEnv
    /\ RewriteIdle
    /\ DownloadIdle
    /\ ImagesIdle
    /\ OnePaper(<<"Selected">>, <<>>)
    /\ poll_pc = "preupload"
    /\ polls = 0
    /\ poll_file = "old"
    /\ run_pc = "idle"
    /\ run_no = 1
    /\ catalog = [p \in CatalogPapers |-> "absent"]
    /\ paper_count = 0
    /\ new_count = 0
    /\ limit = 0
    /\ selected = <<>>
    /\ proc_idx = 0
    /\ offered = {}
    /\ failed = {}
    /\ ranked = <<>>
    /\ papers = <<>>

NextPoll ==
    \/ (Preupload /\ PollFrame)
    \/ (PutFile /\ PollFrame)
    \/ (GetStatus /\ PollFrame)
    \/ (Exhausted /\ PollFrame)

SpecPoll == InitPoll /\ [][NextPoll]_vars

\* Every request made is answered or fails: the call takes its next step.
SpecPollFair == SpecPoll /\ WF_vars(NextPoll)

-----------------------------------------------------------------------------
\* The papers table under save_papers_to_db and the mark of
\* rank_and_select_papers, row by row.

\* The titles the scrape can give its papers.
Titles == {1, 2, 3}

\* The star counts of a scraped paper, standing for the fields an update
\* writes.
Stars == {0, 1}

\* The most papers one scrape returns.
MaxBatch == 2

\* What parse_paper_card returns, as far as the table is concerned.
PaperInfos == [title : Titles, stars : Stars]

\* What scrape_papers_with_pagination returns: nothing keeps a title from
\* coming twice.
ScrapedBatches == UNION {[1..n -> PaperInfos] : n \in 0..MaxBatch}

\* A lookup by title that finds nothing.
FindByTitleNever(tbl, t) == 0

\* session.query(Paper).filter_by(title=title).first() (line 140): the id
\* of the row with the title, 0 for None.  The session flushes before it
\* queries, so a row added earlier in the same call is found.
FindByTitle(tbl, t) ==
    IF \E i \in 1..Len(tbl) : tbl[i].title = t
    THEN CHOOSE i \in 1..Len(tbl) :
            /\ tbl[i].title = t
            /\ \A j \in 1..Len(tbl) : tbl[j].title = t => i <= j
    ELSE 0

\* One pass of the loop of lines 135-172: the row is updated, its
\* thoroughly_read left alone, or a new row is added with the flag false.
SaveOne(tbl, info) ==
    LET i == FindByTitle(tbl, info.title)
    IN  IF i # 0
        THEN [tbl EXCEPT ![i].stars = info.stars]
        ELSE Append(tbl, [title |-> info.title, stars |-> info.stars,
                          thoroughly_read |-> FALSE])

\* save_papers_to_db (lines 131-175): the table after the loop.
RECURSIVE SaveToDb(_, _)
SaveToDb(tbl, batch) ==
    IF batch = <<>> THEN tbl
    ELSE SaveToDb(SaveOne(tbl, Head(batch)), Tail(batch))

\* new_count of save_papers_to_db.
RECURSIVE NewCount(_, _)
NewCount(tbl, batch) ==
    IF batch = <<>> THEN 0
    ELSE (IF FindByTitle(tbl, Head(batch).title) = 0 THEN 1 ELSE 0)
         + NewCount(SaveOne(tbl, Head(batch)), Tail(batch))

\* fetch_latest_papers (lines 88-101) on the table: the scraped papers are
\* saved and new_count + updated_count is returned, or the commit fails and
\* nothing is kept.
FetchIntoTable ==
    \E batch \in ScrapedBatches, committed \in BOOLEAN :
       IF committed
       THEN /\ papers' = SaveToDb(papers, batch)
            /\ new_count' = NewCount(papers, batch)
            /\ paper_count' = Len(batch)
       ELSE UNCHANGED <<papers, new_count, paper_count>>

\* paper.thoroughly_read = True (paper_pipeline.py line 146) on the rows
\* rank_and_select_papers found.
MarkInTable ==
    /\ \E ids \in SUBSET (1..Len(papers)) :
          papers' = [i \in 1..Len(papers) |->
                        IF i \in ids
                        THEN [papers[i] EXCEPT !.thoroughly_read = TRUE]
                        ELSE papers[i]]
    /\ UNCHANGED <<new_count, paper_count>>

\* What the two leave alone.
TableFrame ==
    UNCHANGED <<pc, cfgVars, rwVars, dlVars, imVars, ppVars, pollVars, run_pc,
                run_no, catalog, limit, selected, proc_idx, offered, failed,
                ranked>>

\* An empty table, as create_all makes it.
InitTable ==
    /\ pc = "idle"
    /\ DefaultConfig
    /\ env = NoEnv
    /\ RewriteIdle
    /\ DownloadIdle
    /\ ImagesIdle
    /\ OnePaper(<<"Selected">>, <<>>)
    /\ OuterIdle

NextTable ==
    \/ (FetchIntoTable /\ TableFrame)
    \/ (MarkInTable /\ TableFrame)

SpecTable == InitTable /\ [][NextTable]_vars

-----------------------------------------------------------------------------
\* rank_and_select_papers (paper_pipeline.py lines 104-148) taken alone,
\* with any limit and any catalog.

\* The limits it is called with.
SelectLimits == 0..3

\* One call: no unread paper (lines 109-112), an empty answer of the
\* ranking, which is also what get_chatgpt_ranking returns when it failed
\* (lines 117-119), or the loop of lines 125-146 and the commit at the end
\* of the session, which can fail.
RankAndSelect ==
    /\ run_pc = "select"
    /\ offered' = Unread(catalog)
    /\ IF Unread(catalog) = {}
       THEN /\ run_pc' = "returned"
            /\ UNCHANGED <<catalog, selected, ranked>>
       ELSE \E ranked_paper_ids \in Rankings, committed \in BOOLEAN :
               LET top_papers_ids ==
                       Found(Take(Ints(ranked_paper_ids), limit), catalog)
               IN  /\ ranked' = ranked_paper_ids
                   /\ IF ranked_paper_ids = <<>>
                      THEN /\ run_pc' = "returned"
                           /\ UNCHANGED <<catalog, selected>>
                      ELSE IF committed
                      THEN /\ catalog' = MarkRead(catalog, top_papers_ids)
                           /\ selected' = top_papers_ids
                           /\ run_pc' = "returned"
                      ELSE /\ run_pc' = "commit_error"
                           /\ UNCHANGED <<catalog, selected>>
    /\ UNCHANGED <<run_no, paper_count, new_count, limit, proc_idx, failed>>

\* The caller calls again.
SelectAgain ==
    /\ run_pc \in {"returned", "commit_error"}
    /\ run_no < MaxRuns
    /\ run_no' = run_no + 1
    /\ run_pc' = "select"
    /\ limit' \in SelectLimits
    /\ selected' = <<>>
    /\ ranked' = <<>>
    /\ offered' = {}
    /\ UNCHANGED <<catalog, paper_count, new_count, proc_idx, failed>>

\* What the call leaves alone.
SelectFrame ==
    UNCHANGED <<pc, cfgVars, rwVars, dlVars, imVars, ppVars, pollVars, papers>>

\* A call with any limit on a catalog that holds any papers, read or not.
InitSelect ==
    /\ pc = "idle"
    /\ DefaultConfig
    /\ env = NoEnv
    /\ RewriteIdle
    /\ DownloadIdle
    /\ ImagesIdle
    /\ OnePaper(<<"Selected">>, <<>>)
    /\ poll_pc = "idle"
    /\ polls = 0
    /\ poll_file = "old"
    /\ run_pc = "select"
    /\ run_no = 1
    /\ catalog \in [CatalogPapers -> {"absent", "unread", "read"}]
    /\ paper_count = 0
    /\ new_count = 0
    /\ limit \in SelectLimits
    /\ selected = <<>>
    /\ proc_idx = 0
    /\ offered = {}
    /\ failed = {}
    /\ ranked = <<>>
    /\ papers = <<>>

NextSelect ==
    \/ (RankAndSelect /\ SelectFrame)
    \/ (SelectAgain /\ SelectFrame)

SpecSelect == InitSelect /\ [][NextSelect]_vars

-----------------------------------------------------------------------------
\* C1: rewriting the output of the rewrite with the same alias map returns
\* it unchanged.
RewriteIdempotent == pc = "again" => processed_summary = rewritten_once

\* C1 witness: a summary that held a recorded local path was rewritten to a
\* different text, and rewriting that text again has been done.
RewriteIdempotentWitness ==
    /\ pc = "again"
    /\ rewritten_once # summary
    /\ \E k \in DictKeys(EnhancedImageMap(image_url_map)) : Contains(summary, k)

\* C7: once the rewrite has been applied (and already after pass 1) the text
\* holds no occurrence of any key of the alias map.
NoAliasRemains ==
    pc \in {"pass1", "rewritten"} =>
        \A k \in DictKeys(EnhancedImageMap(image_url_map)) :
            ~Contains(processed_summary, k)

\* C7 witness: the aliases "images_7/a" and "./images_7/a" and the text
\* "./images_7/a"; the rewritten text holds the remote URL.
NoAliasRemainsWitness ==
    /\ pc = "rewritten"
    /\ output_dir = <<>>
    /\ DictKeys(EnhancedImageMap(image_url_map))
           = {<<"I", "7", "/", "a">>, <<".", "/", "I", "7", "/", "a">>}
    /\ summary = <<".", "/", "I", "7", "/", "a">>
    /\ Contains(processed_summary, Url(<<"a">>))

-----------------------------------------------------------------------------
\* The download requests of the log, in order.
PdfRequests == SelectSeq(requests_log, LAMBDA r : r.kind = "pdf")

\* The number of the first n download attempts that ended in a timeout.
TimeoutsBefore(n) ==
    Cardinality({i \in 1..(n - 1) : PdfRequests[i].outcome = "timeout"})

\* C3: attempt k runs with the initial timeout times 1.5 to the number of
\* earlier attempts that timed out; other failures leave it as it is.
TimeoutGrowsOnTimeoutOnly ==
    \A k \in 1..Len(PdfRequests) :
        LET t == PdfRequests[k].timeout
            n == TimeoutsBefore(k)
        IN  t[1] * 2^n = InitialTimeout * 3^n * t[2]

\* C3 witness: max_retries = 3, the first two attempts time out, and the
\* three attempts ran with 30 s, 45 s and 67.5 s.
TimeoutGrowsWitness ==
    /\ max_retries = 3
    /\ Len(PdfRequests) = 3
    /\ PdfRequests[1].outcome = "timeout" /\ PdfRequests[2].outcome = "timeout"
    /\ PdfRequests[1].timeout = <<30, 1>>
    /\ PdfRequests[2].timeout = <<45, 1>>
    /\ PdfRequests[3].timeout = <<135, 2>>

\* C4: the first download attempt uses what get_proxies returns, every later
\* one uses no proxy.
ProxyOnFirstAttemptOnly ==
    \A k \in 1..Len(PdfRequests) :
        PdfRequests[k].proxies = IF k = 1 THEN get_proxies(env) ELSE NoProxies

\* C4 witness: a proxy is configured, the first attempt used it and failed
\* with a request error, the second timed out, and a third was made.
ProxyOnFirstAttemptWitness ==
    /\ Len(PdfRequests) = 3
    /\ PdfRequests[1].proxies # NoProxies
    /\ PdfRequests[1].outcome = "error"
    /\ PdfRequests[2].outcome = "timeout"
    /\ PdfRequests[3].proxies = NoProxies

\* C5: at most max_retries download requests are made, none after a
\* successful one, the call never stops short of returning, and when all
\* max_retries attempts fail with request errors it returns no filename and
\* the arXiv link the page held.
DownloadBounded ==
    /\ Len(PdfRequests) <= max_retries
    /\ \A k \in 1..Len(PdfRequests) :
          PdfRequests[k].outcome = "ok" =>
              /\ k = Len(PdfRequests)
              /\ dl_pc = "returned"
              /\ download_result.filename # ""
    /\ dl_pc \in {"resolve", "attempt"} => ENABLED NextDownload
    /\ (/\ dl_pc = "returned"
        /\ Len(PdfRequests) = max_retries
        /\ \A k \in 1..max_retries : PdfRequests[k].outcome
                                         \in {"timeout", "error", "error_midstream"})
       => /\ download_result.filename = ""
          /\ download_result.arxiv_url = requests_log[1].arxiv

\* C5 witness: three attempts failed with request errors and the call
\* returned no filename and the arXiv link resolved from the page.
DownloadBoundedWitness ==
    /\ dl_pc = "returned"
    /\ max_retries = 3
    /\ Len(PdfRequests) = 3
    /\ \A k \in 1..3 : PdfRequests[k].outcome # "ok"
    /\ download_result = [filename |-> "", arxiv_url |-> "arxiv.org/abs/1"]

-----------------------------------------------------------------------------
\* How often x occurs in the sequence s.
CountOf(s, x) == Cardinality({i \in 1..Len(s) : s[i] = x})

\* The entries of image_url_map that belong to the image img_id.
EntriesOf(img_id) ==
    {i \in 1..Len(image_url_map) :
        \/ image_url_map[i].url = Url(img_id)
        \/ image_url_map[i].path = PathJoin(output_dir, ImageDir, img_id)}

\* C6: in the image loop every image id is written out in full at most
\* once, uploaded at most once and has at most one entry in image_url_map,
\* however many descriptors on however many pages carry it.
EachImageOnce ==
    \A img_id \in ImgIds :
        /\ CountOf(materialized, [id |-> img_id, whole |-> TRUE]) <= 1
        /\ CountOf(uploads, img_id) <= 1
        /\ Cardinality(EntriesOf(img_id)) <= 1

\* C6 witness: the loop ended on a document that carries image "a" on pages
\* 1 and 3; it was uploaded once and has one entry.
EachImageOnceWitness ==
    /\ pc = "summarize"
    /\ \E i, j \in 1..Len(seen) :
          /\ seen[i] = [page |-> 1, id |-> <<"a">>]
          /\ seen[j] = [page |-> 3, id |-> <<"a">>]
    /\ CountOf(uploads, <<"a">>) = 1
    /\ Cardinality(EntriesOf(<<"a">>)) = 1

-----------------------------------------------------------------------------
\* Whether op was called for the current paper.
Called(op) == \E i \in 1..Len(calls) : calls[i] = op

\* C2: no error of a paper reaches main: process_paper always returns, main
\* calls it once for every selected paper, in order, and goes on to the
\* next paper whatever happened to the one before.
NoErrorReachesMain ==
    /\ main_pc # "aborted"
    /\ pc # "aborted"
    /\ Len(reached) = (IF main_pc = "done" THEN Len(top_papers) ELSE idx - 1)
    /\ \A i \in 1..Len(reached) : reached[i].paper = top_papers[i].id
    /\ main_pc = "processing" => ENABLED Next

\* C2 witness: the summarizer failed on the first paper of a batch and the
\* second one was saved.
NoErrorReachesMainWitness ==
    /\ main_pc = "done"
    /\ Len(reached) = 2
    /\ reached[1].failure = "summarizer_error"
    /\ reached[2].last = "Saved"

\* The stages of the current paper are the first stages of StageOrder, and
\* every call was made at a stage that allows it.
StagesInOrder ==
    /\ Len(stages) \in 1..Len(StageOrder)
    /\ \A i \in 1..Len(stages) : stages[i] = StageOrder[i]
    /\ Called("convert") => Len(stages) >= 2
    /\ Called("upload") => Len(stages) >= 2
    /\ Called("summarize") => Len(stages) >= 4
    /\ Called("rewrite") => Len(stages) >= 5
    /\ Called("write") => Len(stages) >= 6
    /\ failure # "" => /\ pc = "returned"
                       /\ result = ""
                       /\ stages[Len(stages)] # "Saved"

\* Once a paper has failed, nothing more is called or written for it and it
\* reaches no further stage.
FailureIsTerminal ==
    (failure # "" /\ idx' = idx /\ main_pc' = main_pc)
        => UNCHANGED <<calls, stages, files, failure>>

\* C9: the stages a paper reaches are a prefix of Selected, Retrieved,
\* Normalized, Rehosted, Summarized, Rewritten, Saved, and its first failure
\* ends it: no conversion, upload, summarizer call, rewrite or file write
\* follows.
StagesFormPrefix == []StagesInOrder /\ [][FailureIsTerminal]_vars

\* C9 witness: a paper was downloaded, converted and had an image uploaded;
\* then the summarizer failed and the paper ended at Rehosted.
StagesFormPrefixWitness ==
    /\ pc = "returned"
    /\ failure = "summarizer_error"
    /\ stages = <<"Selected", "Retrieved", "Normalized", "Rehosted">>
    /\ calls = <<"download_pdf", "convert", "upload", "summarize">>

\* The failures of the retrieval: no link at all, no PDF link on the page,
\* every attempt failed.
DownloadFailures == {"no_url", "no_link", "download_exhausted"}

\* The names of the files of the papers that reached Saved, in the order
\* they were processed.
RECURSIVE SavedNames(_)
SavedNames(n) ==
    IF n = 0 THEN <<>>
    ELSE IF reached[n].last = "Saved"
         THEN Append(SavedNames(n - 1), SummaryName(reached[n].paper))
         ELSE SavedNames(n - 1)

\* C10: a paper whose download failed has no summary file written and no
\* entry in summary_files, and summary_files holds one entry for each paper
\* that reached Saved, in processing order.
FailedDownloadLeavesNothing ==
    /\ failure \in DownloadFailures => ~Called("write")
    /\ \A i \in 1..Len(reached) :
          reached[i].failure \in DownloadFailures =>
             /\ "write" \notin reached[i].ops
             /\ \A j \in 1..Len(files) :
                   files[j].name # SummaryName(reached[i].paper)
             /\ \A j \in 1..Len(summary_files) :
                   summary_files[j] # SummaryName(reached[i].paper)
    /\ summary_files = SavedNames(Len(reached))

\* C10 witness: the first paper of a batch used up its three attempts, the
\* second was saved and is the only entry.
FailedDownloadLeavesNothingWitness ==
    /\ main_pc = "done"
    /\ Len(reached) = 2
    /\ reached[1].failure = "download_exhausted"
    /\ reached[2].last = "Saved"
    /\ summary_files = <<SummaryName(top_papers[2].id)>>
    /\ Len(files) = 1

\* The file of the current paper, if it was written.
SummaryFile ==
    {files[j].text : j \in {k \in 1..Len(files) :
                                files[k].name = SummaryName(top_papers[idx].id)}}

\* C8 as stated: when the rewrite is applied to a summary, the summary is
\* already in its file.
SummaryStoredBeforeRewrite ==
    Called("rewrite") =>
        \E i, j \in 1..Len(calls) :
            i < j /\ calls[i] = "write" /\ calls[j] = "rewrite"

\* C8 as amended: the summary file is written at most once, only after
\* both passes of the rewrite, and a saved file holds the rewritten text.
SummaryStoredAfterRewrite ==
    /\ CountOf(calls, "write") <= 1
    /\ \A j \in 1..Len(calls) :
          calls[j] = "write" =>
             /\ \E i \in 1..(j - 1) : calls[i] = "rewrite"
             /\ Len(stages) >= 6
    /\ (pc = "returned" /\ result # "") =>
          /\ SummaryFile = {processed_summary}
          /\ processed_summary = Rewrite(summary, image_url_map)

\* C8 witness: a summary that named a local image was saved with the
\* remote URL in its place.
SummaryStoredAfterRewriteWitness ==
    /\ pc = "returned"
    /\ result # ""
    /\ processed_summary # summary
    /\ Contains(processed_summary, Url(<<"a">>))
    /\ SummaryFile = {processed_summary}

-----------------------------------------------------------------------------
\* What download_pdf returns after a network failure: the page request
\* failed or timed out (lines 109 and 112, then 122), or every attempt
\* failed (line 193) on a page with any arXiv link.
NetworkFailureResults ==
    {[filename |-> "", arxiv_url |-> a] : a \in ArxivLinks}

\* C11: when the page was fetched and held no PDF link, download_pdf
\* returns a value that no network failure returns.
NoLinkToldFromNetworkFailure ==
    (dl_pc = "returned" /\ requests_log[1].outcome = "no_link")
        => download_result \notin NetworkFailureResults

\* C12: a successful download_pdf leaves one complete file under the final
\* name, and a failed one leaves nothing there, also when an attempt broke
\* off after chunks had been written.
OneFileOrNone ==
    dl_pc = "returned" =>
        IF download_result.filename # ""
        THEN pdf_written = "complete"
        ELSE pdf_written = "none"

\* The three spellings of a local path: as recorded, without a leading "./"
\* and with one.
Spellings(p) ==
    LET bare == IF StartsWith(p, <<".", "/">>) THEN SubSeq(p, 3, Len(p)) ELSE p
    IN  {p, bare, <<".", "/">> \o bare}

\* The local path under which the image loop materializes image id.
LocalPath(id) == PathJoin(output_dir, ImageDir, id)

\* The alias map has the entry path |-> url.
HasEntry(emap, path, url) ==
    \E i \in 1..Len(emap) : emap[i].path = path /\ emap[i].url = url

LongerAliasReplacedFirst ==
    LET emap == EnhancedImageMap(image_url_map)
    IN  /\ \A i, j \in 1..Len(emap) :
              (i < j /\ Len(emap[i].path) < Len(emap[j].path))
                  => ~Contains(emap[j].path, emap[i].path)
        /\ pc = "pass1" =>
              \A i \in 1..Len(emap) :
                  summary = emap[i].path => processed_summary = emap[i].url

\* The number of places of text at which u occurs.
Occurrences(text, u) == Cardinality({p \in 1..Len(text) : IsAt(text, p, u)})

\* C15: the rewrite leaves the remote URLs of the text alone: every URL of
\* the alias map occurs in the output of pass 1 at least as often as in the
\* summary, and in the output of pass 2 at least as often as in the output
\* of pass 1, which holds the URLs pass 1 inserted.
RemoteUrlsKept ==
    [][(pc = "summarized" \/ pc = "pass1") =>
          \A i \in 1..Len(image_url_map) :
              Occurrences(processed_summary', image_url_map[i].url)
                  >= Occurrences(processed_summary, image_url_map[i].url)]_vars

\* Both passes have run on a summary that held the URL of an uploaded image
\* next to a local reference to it, and the reference was replaced.
RemoteUrlsKeptWitness ==
    /\ pc = "rewritten"
    /\ Len(image_url_map) = 1
    /\ summary = image_url_map[1].url \o image_url_map[1].path
    /\ processed_summary = image_url_map[1].url \o image_url_map[1].url

\* C16: no failure met while one image is handled ends the paper: the call
\* of process_paper never fails on an image.
NoImageFailureAborts == failure # "image_error"

\* The failures of the conversion: the backend reported an error, or its
\* response has not the expected shape.
ConversionFailures == {"convert_error", "parse_error"}

\* C17: a paper whose conversion fails, or whose response holds no list of
\* pages or a page of another shape, ends with a failure result: the
\* backend was called at most once for it, and neither the summarizer nor
\* the write of the summary file was called; main collects no file for it.
ConversionFailureEndsPaper ==
    /\ CountOf(calls, "convert") <= 1
    /\ (failure \in ConversionFailures \/ (n_pages < 0 /\ pc # "load")) =>
          /\ pc = "returned"
          /\ result = ""
          /\ failure \in ConversionFailures
          /\ CountOf(calls, "convert") = 1
          /\ ~Called("summarize")
          /\ ~Called("write")
    /\ \A i \in 1..Len(reached) :
          reached[i].failure \in ConversionFailures =>
              /\ reached[i].ops \cap {"summarize", "write"} = {}
              /\ reached[i].last = "Retrieved"
              /\ \A k \in 1..Len(summary_files) :
                    summary_files[k] # SummaryName(reached[i].paper)

\* main has gone through a batch of two papers: the backend failed on the
\* first one, the response for the second one could not be parsed.
ConversionFailureEndsPaperWitness ==
    /\ main_pc = "done"
    /\ Len(reached) = 2
    /\ reached[1].failure = "convert_error"
    /\ reached[2].failure = "parse_error"
    /\ summary_files = <<>>

\* The stage named st was reached by the current paper.
Reached(st) == \E i \in 1..Len(stages) : stages[i] = st

LocalPathKept ==
    \A id \in image_refs \ hosted :
        /\ \A i \in 1..Len(image_url_map) :
              image_url_map[i].path \notin Spellings(LocalPath(id))
        /\ (pc = "returned" /\ Reached("Saved") /\ summary = LocalPath(id)) =>
              SummaryFile = {summary}

\* The step that materializes an image without getting a URL for it goes
\* on with the page, whose text names the image by its local path only.
LocalPathInPage ==
    \A id \in image_refs' \ (image_refs \cup hosted') :
        /\ pc' = "image"
        /\ failure' = ""
        /\ ~Contains(page_content', Ref(id))
        /\ Contains(page_content, Ref(id)) =>
              Contains(page_content', LocalRef(LocalPath(id)))

\* C19: when the upload of a materialized image fails, or there is no
\* uploader, the paper goes on, the text of the page refers to the image by
\* its local path, the image has no entry in the alias map, and a summary
\* that refers to that local path is saved as it is.
UploadFailureKeepsLocalPath == []LocalPathKept /\ [][LocalPathInPage]_vars

\* C20: the step that finds the source file of an image missing goes on
\* with the next image of the page: it copies nothing, uploads nothing,
\* adds no entry to image_url_map, leaves the text of the page and its
\* reference to the image as they are and does not record the image as
\* processed; at the end of the page its text is appended to the content.
MissingSourceSkipped ==
    [][/\ Len(missing') > Len(missing) =>
              /\ pc' = "image"
              /\ failure' = ""
              /\ UNCHANGED <<materialized, uploads, hosted, image_url_map,
                             page_content, image_refs, content>>
       /\ (pc = "image" /\ pc' = "page") => content' = content \o page_content
      ]_vars

\* The image loop has ended on a document whose page refers to image "a",
\* the source file of which was missing: the content holds the reference
\* as the page had it, nothing was copied or uploaded.
MissingSourceSkippedWitness ==
    /\ pc = "summarize"
    /\ missing = <<<<"a">>>>
    /\ materialized = <<>>
    /\ uploads = <<>>
    /\ image_url_map = <<>>
    /\ image_refs = {}
    /\ Contains(content, Ref(<<"a">>))

\* The proxies of the requests that were made with what get_proxies
\* returned: the page request and the first download attempt.
ProxiesReturned ==
    {requests_log[i].proxies :
        i \in {k \in 1..Len(requests_log) :
                  requests_log[k].kind = "page" \/ k = 2}}

\* C21: get_proxies returns no proxy when NO_PROXY or no_proxy is "1",
\* whatever the other variables hold; otherwise its HTTP and its HTTPS
\* proxy are the values of the upper-case variables or, where those are not
\* set, of the lower-case ones, and it returns no proxy when none is set.
ProxiesFromEnvironment ==
    \A r \in ProxiesReturned :
        IF env.NO_PROXY = "1" \/ env.no_proxy = "1"
        THEN r = NoProxies
        ELSE /\ env.HTTP_PROXY # "" => r.http = env.HTTP_PROXY
             /\ env.HTTP_PROXY = "" => r.http = env.http_proxy
             /\ env.HTTPS_PROXY # "" => r.https = env.HTTPS_PROXY
             /\ env.HTTPS_PROXY = "" => r.https = env.https_proxy
             /\ (env.HTTP_PROXY = "" /\ env.http_proxy = "" /\
                 env.HTTPS_PROXY = "" /\ env.https_proxy = "") => r = NoProxies

\* The page and the file were requested with the lower-case opt-out set
\* next to an upper-case proxy, and with no proxy.
ProxiesFromEnvironmentWitness ==
    /\ env.no_proxy = "1"
    /\ env.NO_PROXY = "localhost"
    /\ env.HTTP_PROXY = "P"
    /\ Len(requests_log) >= 2
    /\ ProxiesReturned = {NoProxies}

\* C22: nothing of a paper reaches the next one: the result.json a call
\* of process_paper reads was written by the conversion of its own paper,
\* never by an earlier paper or an earlier run, and image_url_map holds
\* only the images uploaded for this paper, under its own image directory.
NoStateCrossesPapers ==
    /\ pc = "load" => result_json = top_papers[idx].id
    /\ loaded \in {0, top_papers[idx].id}
    /\ \A i \in 1..Len(image_url_map) : \E id \in hosted :
          /\ image_url_map[i].path = LocalPath(id)
          /\ image_url_map[i].url = Url(id)
    /\ pc \in {"start", "download", "convert"} => image_url_map = <<>>

\* The second paper of a batch has read its own conversion result and had
\* an image uploaded, after a first paper that was converted, had an image
\* uploaded and was saved.
NoStateCrossesPapersWitness ==
    /\ idx = 2
    /\ Len(reached) = 1
    /\ reached[1].last = "Saved"
    /\ "upload" \in reached[1].ops
    /\ pc = "summarize"
    /\ loaded = top_papers[2].id
    /\ hosted # {}
    /\ image_url_map # <<>>

\* C23: without the image host's token the run fails before any paper is
\* processed: nothing is downloaded, converted, summarized or saved for any
\* paper of the batch.
MissingTokenFatalAtStart ==
    ~smms_key =>
        /\ calls = <<>>
        /\ files = <<>>
        /\ \A i \in 1..Len(reached) : reached[i].ops = {}

\* C24: only the first descriptor of an id is processed: a step that
\* writes an image to the image directory or uploads it handles an id no
\* earlier descriptor of the document carried, whether or not that one
\* was materialized.
FirstOccurrenceOnly ==
    [][(materialized' # materialized \/ uploads' # uploads) =>
          \A i \in 1..Len(seen) : seen[i].id # seen'[Len(seen')].id]_vars

\* C25: after the image loop no page of the content refers to a
\* materialized image by ![id](id): every such reference, on whatever page,
\* names the local path.
EveryPageNamesLocalPath ==
    (pc = "summarize" /\ converter = "mistral_ocr") =>
        \A id \in image_refs : ~Contains(content, Ref(id))

\* Only a page with text enters the loop over its images, and a document
\* that yields no content ends the paper before the summarizer is called.
OnlyPagesWithText ==
    /\ pc = "image" => page_content # <<>>
    /\ (pc = "summarize" /\ converter = "mistral_ocr") => content # <<>>
    /\ failure = "no_content" =>
          /\ pc = "returned"
          /\ result = ""
          /\ content = <<>>
          /\ seen = <<>>
          /\ ~Called("summarize")

\* The step that passes over a page leaves the content, the image
\* directory, the uploads and the record of processed ids as they are.
DroppedPageLeavesNothing ==
    (pc = "page" /\ pc' = "page" /\ page_no' = page_no + 1) =>
        /\ failure' = ""
        /\ UNCHANGED <<content, seen, materialized, uploads, hosted, missing,
                       image_refs, image_url_map>>

RECURSIVE SubMatches(_, _, _, _, _)
\* s from p on with every match of the pattern for filename that is not a
\* known alias replaced by url, the text between the matches as it is.
SubMatches(s, p, filename, url, emap) ==
    IF p > Len(s) THEN <<>>
    ELSE LET e == MatchEnd(s, p, filename)
         IN  IF e = 0
             THEN <<s[p]>> \o SubMatches(s, p + 1, filename, url, emap)
             ELSE (IF SubSeq(s, p, e - 1) \in DictKeys(emap)
                   THEN SubSeq(s, p, e - 1) ELSE url)
                  \o SubMatches(s, e, filename, url, emap)

RECURSIVE MatchesReplacedFrom(_, _, _, _)
\* The text with the matches of every uploaded image replaced, one image
\* after the other in the order of image_url_map.
MatchesReplacedFrom(text, m, emap, i) ==
    IF i > Len(m) THEN text
    ELSE MatchesReplacedFrom(
             SubMatches(text, 1, Basename(m[i].path), m[i].url, emap),
             m, emap, i + 1)

\* C27: pass 2 replaces every occurrence of [./][data/]images_<segment>/f,
\* f the file name of an uploaded image, that is not a known alias by the
\* image's URL and leaves the text outside the occurrences as it is; no
\* such occurrence is left in its output.
Pass2ReplacesEveryMatch ==
    [][(pc = "pass1" /\ pc' = "rewritten") =>
          LET emap == EnhancedImageMap(image_url_map)
          IN  /\ processed_summary' =
                    MatchesReplacedFrom(processed_summary, image_url_map, emap, 1)
              /\ \A i \in 1..Len(image_url_map) :
                    LET left == FindIter(processed_summary', 1,
                                         Basename(image_url_map[i].path))
                    IN  \A k \in 1..Len(left) : left[k] \in DictKeys(emap)]_vars

\* C28: when the fetch of a run added no paper to the catalog at most
\* fallback_ranking_limit papers are selected, and default_ranking_limit
\* is the limit only of a run whose fetch added a paper.
FallbackLimitWhenNothingNew ==
    run_pc \in {"process", "done"} =>
        /\ new_count = 0 => Len(selected) <= fallback_ranking_limit
        /\ limit = default_ranking_limit => new_count >= 1

\* C30: every paper rank_and_select_papers returned is marked
\* thoroughly_read while process_paper is called on the papers of the run;
\* a paper whose processing failed stays marked, and no later run gives it
\* to the ranking.
SelectedPapersStayRead ==
    /\ run_pc = "process" =>
          \A i \in 1..Len(selected) : catalog[selected[i]] = "read"
    /\ \A f \in failed :
          /\ catalog[f.id] = "read"
          /\ f.run < run_no => f.id \notin offered

\* A second run ranks the unread papers of a catalog one paper of which
\* failed in the first run, and is processing its selection.
SelectedPapersStayReadWitness ==
    /\ run_no = 2
    /\ run_pc = "process"
    /\ [id |-> 1, run |-> 1] \in failed
    /\ offered = {2, 3}
    /\ selected = <<2>>
    /\ paper_count > 0

\* C29: the doc2x convert_to_markdown ends after at most 1000 status
\* requests whatever the service answers; when it has returned, result.json
\* holds the result of a "success" answer, and when it has raised,
\* result.json is as the call found it.
PollingOutcome ==
    /\ polls <= doc2x_max_retries
    /\ poll_pc = "returned" => poll_file = "result"
    /\ poll_pc = "raised" => poll_file = "old"
PollingEnds == <>(poll_pc \in {"returned", "raised"})
PollingLoopTerminates == []PollingOutcome /\ PollingEnds

\* C31: over any sequence of fetches and marks the catalog holds at most
\* one row per title; a step never takes thoroughly_read from a row that
\* has it, never changes a row's title, and every row it adds is unread.
TitlesUnique ==
    \A i, j \in 1..Len(papers) : papers[i].title = papers[j].title => i = j
ReadFlagKept ==
    /\ Len(papers') >= Len(papers)
    /\ \A i \in 1..Len(papers) :
          /\ papers'[i].title = papers[i].title
          /\ papers[i].thoroughly_read => papers'[i].thoroughly_read
    /\ \A i \in (Len(papers) + 1)..Len(papers') : ~papers'[i].thoroughly_read
ReadFlagMonotonicTitlesUnique == []TitlesUnique /\ [][ReadFlagKept]_vars
\* A fetch has added one paper and updated another in a table that holds a
\* read paper beside unread ones.
ReadFlagMonotonicTitlesUniqueWitness ==
    /\ Len(papers) = 3
    /\ paper_count = 2 /\ new_count = 1
    /\ papers[1].thoroughly_read /\ papers[1].stars = 1
    /\ ~papers[3].thoroughly_read

\* C32: rank_and_select_papers returns at most `limit` papers, in the
\* order of the ranking; each is a paper of the catalog whose id the
\* ranking named; entries that are no integer or no paper's id are left
\* out, and only the returned papers are marked; with no unread paper or an
\* empty (or failed) ranking nothing is returned and nothing is marked.
RECURSIVE InOrderOf(_, _)
InOrderOf(s, r) ==
    IF s = <<>> THEN TRUE
    ELSE IF r = <<>> THEN FALSE
    ELSE IF Head(s) = Head(r) THEN InOrderOf(Tail(s), Tail(r))
    ELSE InOrderOf(s, Tail(r))
SelectionWithinRanking ==
    run_pc = "returned" =>
        /\ Len(selected) <= limit
        /\ InOrderOf(selected, ranked)
        /\ \A i \in 1..Len(selected) :
              /\ selected[i] \in CatalogPapers
              /\ catalog[selected[i]] = "read"
        /\ (offered = {} \/ ranked = <<>>) => selected = <<>>
SelectionMarksOnlyReturned ==
    /\ \A p \in CatalogPapers :
          catalog'[p] # catalog[p] =>
              /\ run_pc' = "returned"
              /\ catalog[p] = "unread" \/ catalog[p] = "read"
              /\ \E i \in 1..Len(selected') : selected'[i] = p
    /\ (run_pc' = "returned" /\ (offered' = {} \/ ranked' = <<>>)) =>
           catalog' = catalog
PageRequestsAt ==
    {k \in 1..Len(requests_log) : requests_log[k].kind = "page"}
LinkResolvedOnceBeforeLoop ==
    /\ dl_pc = "resolve" => requests_log = <<>>
    /\ dl_pc \in {"attempt", "returned", "raised"} => PageRequestsAt = {1}
    /\ \A k \in PageRequestsAt :
          /\ requests_log[k].proxies = get_proxies(env)
          /\ requests_log[k].timeout = <<10, 1>>
    /\ \A k \in PageRequestsAt :
          requests_log[k].outcome \in {"timeout", "error", "no_link"} =>
              /\ dl_pc = "returned"
              /\ download_result.filename = ""
              /\ Len(requests_log) = 1
\* The page request went through a proxy and timed out; the call returned
\* although three attempts were allowed.
LinkResolvedOnceBeforeLoopWitness ==
    /\ dl_pc = "returned"
    /\ max_retries = 3
    /\ get_proxies(env) # NoProxies
    /\ Len(requests_log) = 1
    /\ requests_log[1].outcome = "timeout"

====
